---- MODULE Spec2Model ----
(***************************************************************************)
(* Recall AI: the recency cache (cache_manager.py), the vector store       *)
(* adapter, the embedding and chat adapters and the cache-first query      *)
(* engine (utils.py), and the /forget handlers (handlers.py) as a state    *)
(* machine.                                                                *)
(*                                                                         *)
(* Strings are TLA+ strings; a cache key is built by concatenation as the  *)
(* code builds it.  time.time() is the variable now: every reading taken   *)
(* by a cache put is strictly later than the one before it.                *)
(***************************************************************************)
EXTENDS Integers, Sequences, FiniteSets, TLC

VARIABLES
    search_cache,       \* CacheManager.search_cache: OrderedDict, oldest first
    search_cache_file,  \* content of search_cache.txt (a list of entries)
    user_modes,         \* CacheManager.user_modes: user_id -> UserMode
    user_modes_file,    \* content of user_modes.txt (the modes saved last)
    now,                \* the wall clock read by time.time()
    last_put,           \* history: what the latest step did as a cache put
    config,             \* config.ai: provider and embedding_model
    collection,         \* the Qdrant collection: exists, size, points, indexes
    next_id,            \* the next fresh point id (uuid.uuid4())
    tasks,              \* the coroutines in flight, each at its awaited call
    probe,              \* the latest pair of queries the match test was applied to
    listed,             \* what the latest get_cached_searches call returned
    purged,             \* history: the cache and the clock a watched purge found
    user_data           \* context.user_data of each chat user, and the handler it is in

\* ------------------------------------------------------------------ bounds
\* the largest limit a caller asks query_knowledge_base for
MaxLimit == 22
\* cache puts made by the questions of one run of the query engine
MaxAsks == 3
\* capacity the CacheManager is constructed with (the default is 10)
max_search_cache == 3
\* how many times a put may read the clock within one day
MaxPuts == 4
\* how many whole days the clock may advance
MaxDays == 1
\* the largest point id a store may hand out
MaxPoints == 3

\* ------------------------------------------------------------ program data
DaySeconds == 86400
\* clear_all_memories: limit=10000 of its dummy search
SearchAllLimit == 10000

\* an owner is the Telegram username, or str(user.id) when there is none
Owners == {"u1", "7"}
Queries == {"Hi", "Python tutorials"}
UserIds == {7}
Modes == {"remember", "search", "talk"}

\* a ScoredResult as the cache keeps it: the point's id and its text
ResultLists == {<<>>, <<[id |-> 1, text |-> "paris"]>>}

\* ---------------------------------------------------------------- strings
UpperCase == {"A", "B", "C", "D", "E", "F", "G", "H", "I", "J", "K", "L",
     "M", "N", "O", "P", "Q", "R", "S", "T", "U", "V", "W", "X", "Y", "Z"}

\* str.lower() on one character
LowerChar(c) ==
    IF c \notin UpperCase THEN c
    ELSE CASE c = "A" -> "a" [] c = "B" -> "b" [] c = "C" -> "c" [] c = "D" -> "d"
           [] c = "E" -> "e" [] c = "F" -> "f" [] c = "G" -> "g" [] c = "H" -> "h"
           [] c = "I" -> "i" [] c = "J" -> "j" [] c = "K" -> "k" [] c = "L" -> "l"
           [] c = "M" -> "m" [] c = "N" -> "n" [] c = "O" -> "o" [] c = "P" -> "p"
           [] c = "Q" -> "q" [] c = "R" -> "r" [] c = "S" -> "s" [] c = "T" -> "t"
           [] c = "U" -> "u" [] c = "V" -> "v" [] c = "W" -> "w" [] c = "X" -> "x"
           [] c = "Y" -> "y" [] c = "Z" -> "z"

RECURSIVE LowerFrom(_, _)
LowerFrom(s, i) ==
    IF i > Len(s) THEN ""
    ELSE LowerChar(SubSeq(s, i, i)) \o LowerFrom(s, i + 1)

\* str.lower()
Lower(s) == LowerFrom(s, 1)

\* str.upper() on one character
UpperChar(c) ==
    LET ups == {C \in UpperCase : LowerChar(C) = c}
    IN IF ups = {} THEN c ELSE CHOOSE C \in ups : TRUE

RECURSIVE UpperFrom(_, _)
UpperFrom(s, i) ==
    IF i > Len(s) THEN ""
    ELSE UpperChar(SubSeq(s, i, i)) \o UpperFrom(s, i + 1)

\* str.upper()
Upper(s) == UpperFrom(s, 1)

\* Python's "a in b" on strings
IsSubstring(a, b) ==
    \E i \in 0..(Len(b) - Len(a)) : SubSeq(b, i + 1, i + Len(a)) = a

\* the first and the last position of s that hold no blank
FirstInk(s) ==
    LET ink == {i \in 1..Len(s) : SubSeq(s, i, i) # " "}
    IN IF ink = {} THEN Len(s) + 1 ELSE CHOOSE i \in ink : \A j \in ink : i <= j
LastInk(s) ==
    LET ink == {i \in 1..Len(s) : SubSeq(s, i, i) # " "}
    IN IF ink = {} THEN 0 ELSE CHOOSE i \in ink : \A j \in ink : i >= j
\* str.strip() for blanks
Strip(s) == SubSeq(s, FirstInk(s), LastInk(s))

\* ------------------------------------------------------------ recency cache
\* mutant: owner and query are joined with nothing between them
CacheKeyJoined(username, query) == username \o query

\* cache_key = f"{username}:{query}"
CacheKey(username, query) == username \o ":" \o query

Keys(cache) == {cache[i].key : i \in DOMAIN cache}

RemoveKeys(cache, ks) == SelectSeq(cache, LAMBDA e : e.key \notin ks)

\* mutant: the loop stops one entry too early
EvictLate(cache) ==
    IF Len(cache) > max_search_cache + 1 THEN Tail(cache) ELSE cache

\* mutant: popitem(last=True), the newest entry goes
EvictNewest(cache) ==
    IF Len(cache) > max_search_cache THEN SubSeq(cache, 1, max_search_cache)
    ELSE cache

\* while len(self.search_cache) > self.max_search_cache: popitem(last=False)
RECURSIVE EvictOldest(_)
EvictOldest(cache) ==
    IF Len(cache) > max_search_cache THEN EvictOldest(Tail(cache)) ELSE cache

FileOf(cache) ==
    [i \in DOMAIN cache |->
        [query |-> cache[i].query, results |-> cache[i].results,
         timestamp |-> cache[i].timestamp, username |-> cache[i].username]]

\* _save_search_cache: the write may fail, which is only logged
SaveSearchCache(cache, ok) == IF ok THEN FileOf(cache) ELSE search_cache_file

\* self.search_cache[cache_key] = result, for the items of the file in their
\* order: a key met again keeps its place and takes the later item; nothing
\* is evicted
RECURSIVE LoadFrom(_, _, _)
LoadFrom(file, i, cache) ==
    IF i > Len(file) THEN cache
    ELSE LET key == CacheKey(file[i].username, file[i].query)
             result == [key |-> key, query |-> file[i].query,
                        results |-> file[i].results,
                        timestamp |-> file[i].timestamp,
                        username |-> file[i].username]
         IN LoadFrom(file, i + 1,
                     IF key \in Keys(cache)
                     THEN [j \in DOMAIN cache |->
                              IF cache[j].key = key THEN result ELSE cache[j]]
                     ELSE Append(cache, result))

\* mutant: the items of the file are loaded last one first
LoadSearchCacheNewestFirst(file) ==
    LoadFrom([i \in DOMAIN file |-> file[Len(file) + 1 - i]], 1, <<>>)

\* _load_search_cache on a file that exists and parses
LoadSearchCache(file) == LoadFrom(file, 1, <<>>)

\* _save_user_modes: the write may fail, which is only logged
SaveUserModes(modes, ok) == IF ok THEN modes ELSE user_modes_file

\* mutant: the existing key is overwritten where it stands
CachePutInPlace(cache, query, results, username, t) ==
    LET key == CacheKey(username, query)
        entry == [key |-> key, query |-> query, results |-> results,
                  timestamp |-> t, username |-> username]
    IN IF key \in Keys(cache)
       THEN [i \in DOMAIN cache |-> IF cache[i].key = key THEN entry ELSE cache[i]]
       ELSE EvictOldest(Append(cache, entry))

\* cache_search_result without the save: the new content of search_cache
CachePut(cache, query, results, username, t) ==
    LET key == CacheKey(username, query)
        removed == IF key \in Keys(cache) THEN RemoveKeys(cache, {key}) ELSE cache
        added == Append(removed,
                        [key |-> key, query |-> query, results |-> results,
                         timestamp |-> t, username |-> username])
    IN EvictOldest(added)

\* sort(key=timestamp, reverse=True) is stable: insertion sort, newest first
RECURSIVE SortNewestFirst(_)
InsertByTime(e, sorted) ==
    LET before == SelectSeq(sorted, LAMBDA x : x.timestamp >= e.timestamp)
        after == SelectSeq(sorted, LAMBDA x : x.timestamp < e.timestamp)
    IN before \o <<e>> \o after
SortNewestFirst(s) ==
    IF s = <<>> THEN <<>>
    ELSE InsertByTime(s[Len(s)], SortNewestFirst(SubSeq(s, 1, Len(s) - 1)))

\* mutant: the sort is oldest first
GetCachedSearchesOldestFirst(cache, username, limit) ==
    LET user_searches == SelectSeq(cache, LAMBDA e : e.username = username)
        sorted == SortNewestFirst(user_searches)
        oldest == [i \in DOMAIN sorted |-> sorted[Len(sorted) + 1 - i]]
    IN SubSeq(oldest, 1, IF Len(oldest) < limit THEN Len(oldest) ELSE limit)

\* mutant: the entries of a user are found by the head of their key
GetCachedSearchesByKey(cache, username, limit) ==
    LET head == username \o ":"
        user_searches ==
            SelectSeq(cache, LAMBDA e : /\ Len(e.key) >= Len(head)
                                        /\ SubSeq(e.key, 1, Len(head)) = head)
        sorted == SortNewestFirst(user_searches)
    IN SubSeq(sorted, 1, IF Len(sorted) < limit THEN Len(sorted) ELSE limit)

GetCachedSearches(cache, username, limit) ==
    LET user_searches == SelectSeq(cache, LAMBDA e : e.username = username)
        sorted == SortNewestFirst(user_searches)
    IN SubSeq(sorted, 1, IF Len(sorted) < limit THEN Len(sorted) ELSE limit)

\* the entries cache_search_result pops to get back within the capacity
Evicted(cache, query, username) ==
    LET key == CacheKey(username, query)
        kept == IF key \in Keys(cache) THEN RemoveKeys(cache, {key}) ELSE cache
        over == Len(kept) + 1 - max_search_cache
    IN IF over > 0 THEN SubSeq(kept, 1, IF over > Len(kept) THEN Len(kept) ELSE over)
       ELSE <<>>

NoPut == [key |-> "", existed |-> FALSE, evicted |-> <<>>]

cache_vars == <<search_cache, search_cache_file, user_modes, user_modes_file,
               last_put>>
store_vars == <<config, collection, next_id, tasks>>
vars == <<search_cache, search_cache_file, user_modes, user_modes_file, now,
          last_put,
          config, collection, next_id, tasks, probe, listed, purged, user_data>>

\* no query pair has been compared yet
NoProbe == [cached |-> "", query |-> "", matched |-> FALSE, asked |-> FALSE]

\* no purge has been watched yet
NoPurged == [asked |-> FALSE, max_age_days |-> 0, clock |-> 0, before |-> <<>>]

\* nothing awaits a confirmation, no handler runs, no text has come in
NoPending == [search_terms |-> "", username |-> "", count |-> 0]
NoUserData ==
    [u \in Owners |-> [pending_forget |-> NoPending, pending_forget_all |-> NoPending,
                       handler |-> "none", text |-> ""]]

\* get_cached_searches has not been called yet
NoListed == [username |-> "", limit |-> 0, entries |-> <<>>, asked |-> FALSE]

NoModes == [u \in {} |-> [user_id |-> u, mode |-> "", timestamp |-> 0]]

\* ------------------------------------------------------------ vector store
\* the coroutines the process runs: one unless questions are handled at once
TaskIds == DOMAIN tasks
Texts == {"paris", "rome"}
NoMeta == [k \in {} |-> ""]
\* caller metadata: none, an ordinary tag, and one that names a reserved key
Metadatas == {NoMeta, [content_type |-> "url"], [username |-> "u1"]}

Configs == {[provider |-> "OpenAI", embedding_model |-> "text-embedding-3-small"],
            [provider |-> "Gemini", embedding_model |-> "text-embedding-004"]}

get_embedding_dimensions(provider, embedding_model) ==
    CASE provider = "OpenAI" /\ embedding_model = "text-embedding-3-large" -> 3072
      [] provider = "Gemini" /\ embedding_model \in
            {"text-embedding-004", "embedding-001", "embedding-gecko-001"} -> 768
      [] OTHER -> 1536

ExpectedDims == get_embedding_dimensions(config.provider, config.embedding_model)

NoCollection == [exists |-> FALSE, size |-> 0, points |-> {}, indexes |-> {}]

\* payload = {text, username, timestamp, content_type}; payload.update(metadata)
Payload(text, username, metadata, t) ==
    LET base == [text |-> text, username |-> username, timestamp |-> t,
                 content_type |-> "general"]
    IN [k \in DOMAIN base \cup DOMAIN metadata |->
            IF k \in DOMAIN metadata THEN metadata[k] ELSE base[k]]

\* a stored point; writer is history: the username argument of the store call
Point(id, text, username, metadata, t) ==
    [id |-> id, payload |-> Payload(text, username, metadata, t),
     writer |-> username]

\* what earlier runs may have left in the collection
InitPointSets ==
    {{}, {Point(1, "paris", "u1", NoMeta, 0), Point(2, "rome", "7", NoMeta, 0)}}

IdleTask ==
    [op |-> "none", pc |-> "idle", username |-> "", text |-> "", query |-> "",
     metadata |-> NoMeta, limit |-> 0, preview_only |-> FALSE,
     point |-> Point(0, "", "", NoMeta, 0), hits |-> <<>>, found |-> {},
     count |-> 0, result |-> "", error |-> "", calls |-> <<>>, hit |-> FALSE,
     had_entry |-> FALSE, had_match |-> FALSE, searched |-> FALSE,
     results |-> <<>>, chat |-> "pending", reply |-> "", seen |-> NoCollection,
     matched_query |-> "", entry_results |-> <<>>, repeat |-> FALSE,
     ensured |-> FALSE, asked_limit |-> 0]

InFlight(t) == tasks[t].pc \notin {"idle", "returned", "raised"}
Quiet == \A t \in TaskIds : ~InFlight(t)

Min(a, b) == IF a < b THEN a ELSE b

\* Filter(must=[FieldCondition(key="username", match=MatchValue(username))])
UserFilter(points, username) == {p \in points : p.payload.username = username}

InjectiveSeqs(S, k) ==
    {s \in [1..k -> S] : \A i, j \in 1..k : i # j => s[i] # s[j]}

\* client.search with a score_threshold: up to limit of the filtered points,
\* which ones and in which order is the similarity's business
SearchHits(points, username, limit) ==
    LET S == UserFilter(points, username)
    IN UNION {InjectiveSeqs(S, k) : k \in 0..Min(limit, Cardinality(S))}

\* client.search without a threshold: the limit best of the filtered points
SearchTop(points, username, limit) ==
    LET S == UserFilter(points, username)
    IN InjectiveSeqs(S, Min(limit, Cardinality(S)))

\* hit.id, hit.payload.get("text", ""): the result dicts of a search
FormatResults(hits) ==
    [i \in DOMAIN hits |-> [id |-> hits[i].id, text |-> hits[i].payload.text]]

\* the exception a failure inside the operation surfaces as
ErrorKind(op) ==
    CASE op \in {"search_cache_first", "query_knowledge_base"} -> "AIServiceError"
      [] op = "ensure_collection_exists" -> "Exception"
      [] OTHER -> "DatabaseError"

Raised(tk) == [tk EXCEPT !.pc = "raised", !.error = ErrorKind(tk.op)]

\* ensure_collection_exists has returned: the caller goes on to its next await
Ensured(tk) ==
    LET on == [tk EXCEPT !.ensured = TRUE]
    IN CASE tk.op = "store_in_vector_db" ->
               [on EXCEPT !.pc = "upsert",
                          !.point = Point(next_id, tk.text, tk.username,
                                          tk.metadata, now)]
         [] tk.op = "clear_all_memories" -> [on EXCEPT !.pc = "search_all"]
         [] tk.op = "ensure_collection_exists" -> [on EXCEPT !.pc = "returned"]
         [] tk.op = "delete_memories_by_terms" ->
               \* generate_embedding(search_terms) refuses a blank text
               IF Strip(tk.query) = "" THEN Raised(on)
               ELSE [on EXCEPT !.pc = "terms_embedding"]
         [] OTHER -> [on EXCEPT !.pc = "search"]

SetTask(t, tk) ==
    /\ tasks' = [tasks EXCEPT ![t] = tk]
    /\ next_id' = IF tk.pc = "upsert" /\ tasks[t].pc # "upsert"
                  THEN next_id + 1 ELSE next_id

\* ---- ensure_collection_exists, one step per awaited client call
Call(t, op, username) ==
    [IdleTask EXCEPT !.op = op, !.pc = "get_collection", !.username = username,
                     !.seen = collection]

\* mutant: the vector size of an existing collection is not looked at
ensure_get_collection_any_size(t, ok) ==
    /\ tasks[t].pc = "get_collection"
    /\ SetTask(t, IF ok /\ collection.exists
                  THEN [tasks[t] EXCEPT !.pc = "index_username"]
                  ELSE [tasks[t] EXCEPT !.pc = "create_collection_except"])
    /\ UNCHANGED <<config, collection>>

\* mutant: an existing collection is recreated whatever its vector size
ensure_get_collection_recreate(t, ok) ==
    /\ tasks[t].pc = "get_collection"
    /\ SetTask(t, IF ok /\ collection.exists
                  THEN [tasks[t] EXCEPT !.pc = "delete_collection"]
                  ELSE [tasks[t] EXCEPT !.pc = "create_collection_except"])
    /\ UNCHANGED <<config, collection>>

ensure_get_collection(t, ok) ==
    /\ tasks[t].pc = "get_collection"
    /\ SetTask(t, IF ok /\ collection.exists
                  THEN IF collection.size # ExpectedDims
                       THEN [tasks[t] EXCEPT !.pc = "delete_collection"]
                       ELSE [tasks[t] EXCEPT !.pc = "index_username"]
                  ELSE [tasks[t] EXCEPT !.pc = "create_collection_except"])
    /\ UNCHANGED <<config, collection>>

ensure_delete_collection(t, ok) ==
    /\ tasks[t].pc = "delete_collection"
    /\ IF ok
       THEN /\ collection' = NoCollection
            /\ SetTask(t, [tasks[t] EXCEPT !.pc = "create_collection"])
       ELSE /\ UNCHANGED collection
            /\ SetTask(t, [tasks[t] EXCEPT !.pc = "create_collection_except"])
    /\ UNCHANGED config

\* _create_collection_with_indexes: create_collection, then the indexes
ensure_create_collection(t, ok) ==
    /\ tasks[t].pc \in {"create_collection", "create_collection_except"}
    /\ IF ok /\ ~collection.exists
       THEN /\ collection' = [exists |-> TRUE, size |-> ExpectedDims,
                              points |-> {}, indexes |-> {}]
            /\ SetTask(t, [tasks[t] EXCEPT !.pc = "index_username"])
       ELSE /\ UNCHANGED collection
            /\ SetTask(t, IF tasks[t].pc = "create_collection"
                          THEN [tasks[t] EXCEPT !.pc = "create_collection_except"]
                          ELSE Raised(tasks[t]))
    /\ UNCHANGED config

NextIndex(pc) ==
    CASE pc = "index_username" -> "index_content_type"
      [] pc = "index_content_type" -> "index_timestamp"
      [] OTHER -> "done"

IndexField(pc) == SubSeq(pc, 7, Len(pc))

\* _ensure_indexes_exist: three create_payload_index calls, any exception ends it
ensure_indexes_exist(t, ok) ==
    /\ tasks[t].pc \in {"index_username", "index_content_type", "index_timestamp"}
    /\ IF ok /\ collection.exists
       THEN /\ collection' = [collection EXCEPT
                                !.indexes = @ \cup {IndexField(tasks[t].pc)}]
            /\ SetTask(t, IF NextIndex(tasks[t].pc) = "done"
                          THEN Ensured(tasks[t])
                          ELSE [tasks[t] EXCEPT !.pc = NextIndex(tasks[t].pc)])
       ELSE /\ UNCHANGED collection
            /\ SetTask(t, Ensured(tasks[t]))
    /\ UNCHANGED config

\* the collection accepts vectors of the configured size
Usable == collection.exists /\ collection.size = ExpectedDims

\* ---- store_in_vector_db
store_in_vector_db(t, text, username, metadata) ==
    /\ ~InFlight(t)
    /\ next_id <= MaxPoints
    /\ SetTask(t, [Call(t, "store_in_vector_db", username) EXCEPT
                      !.text = text, !.metadata = metadata])
    /\ UNCHANGED <<config, collection>>

store_upsert(t, ok) ==
    /\ tasks[t].pc = "upsert"
    /\ IF ok /\ Usable
       THEN /\ collection' = [collection EXCEPT !.points = @ \cup {tasks[t].point}]
            /\ SetTask(t, [tasks[t] EXCEPT !.pc = "returned"])
       ELSE /\ UNCHANGED collection
            /\ SetTask(t, Raised(tasks[t]))
    /\ UNCHANGED config

\* ---- search_vector_db_enhanced and search_vector_db
search_vector_db_enhanced(t, username, limit) ==
    /\ ~InFlight(t)
    /\ SetTask(t, [Call(t, "search_vector_db_enhanced", username) EXCEPT
                      !.limit = limit])
    /\ UNCHANGED <<config, collection>>

search_vector_db(t, username, limit) ==
    /\ ~InFlight(t)
    /\ SetTask(t, [Call(t, "search_vector_db", username) EXCEPT !.limit = limit])
    /\ UNCHANGED <<config, collection>>

search_response(t, ok) ==
    /\ tasks[t].pc = "search"
    /\ tasks[t].op \in {"search_vector_db_enhanced", "search_vector_db"}
    /\ IF ok /\ Usable
       THEN \E hits \in (IF tasks[t].op = "search_vector_db"
                         THEN SearchTop(collection.points, tasks[t].username,
                                        tasks[t].limit)
                         ELSE SearchHits(collection.points, tasks[t].username,
                                         tasks[t].limit)) :
                SetTask(t, [tasks[t] EXCEPT !.pc = "returned", !.hits = hits])
       ELSE SetTask(t, Raised(tasks[t]))
    /\ UNCHANGED <<config, collection>>

\* ---- clear_all_memories
clear_all_memories(t, username, preview_only) ==
    /\ ~InFlight(t)
    /\ SetTask(t, [Call(t, "clear_all_memories", username) EXCEPT
                      !.preview_only = preview_only])
    /\ UNCHANGED <<config, collection>>

\* S without k of its members: which ones a search leaves out when more than
\* limit points match is the backend's choice, one choice is followed here
RECURSIVE LeaveOut(_, _)
LeaveOut(S, k) ==
    IF k <= 0 THEN S ELSE LeaveOut(S \ {CHOOSE x \in S : TRUE}, k - 1)

\* the ids a search without payload and without threshold returns
SearchIds(points, username, limit) ==
    LET S == {p.id : p \in UserFilter(points, username)}
    IN {LeaveOut(S, Cardinality(S) - limit)}

clear_all_search(t, ok) ==
    /\ tasks[t].pc = "search_all"
    /\ IF ok /\ Usable
       THEN \E found \in SearchIds(collection.points, tasks[t].username,
                                   SearchAllLimit) :
              LET total_count == Cardinality(found)
              IN SetTask(t, IF tasks[t].preview_only \/ total_count = 0
                            THEN [tasks[t] EXCEPT !.count = total_count,
                                                  !.pc = "returned"]
                            ELSE [tasks[t] EXCEPT !.count = total_count,
                                                  !.found = found,
                                                  !.pc = "delete_points"])
       ELSE SetTask(t, Raised(tasks[t]))
    /\ UNCHANGED <<config, collection>>

clear_all_delete(t, ok) ==
    /\ tasks[t].pc = "delete_points"
    /\ IF ok /\ collection.exists
       THEN /\ collection' = [collection EXCEPT
                    !.points = {p \in @ : p.id \notin tasks[t].found}]
            /\ SetTask(t, [tasks[t] EXCEPT !.pc = "returned", !.found = {}])
       ELSE /\ UNCHANGED collection
            /\ SetTask(t, Raised(tasks[t]))
    /\ UNCHANGED config

\* ---- delete_memories_by_terms; the search terms are kept in the field query
TermsLimit == 1000

delete_memories_by_terms(t, search_terms, username, preview_only) ==
    /\ ~InFlight(t)
    /\ SetTask(t, [Call(t, "delete_memories_by_terms", username) EXCEPT
                      !.query = search_terms, !.preview_only = preview_only])
    /\ UNCHANGED <<config, collection>>

\* generate_embedding(search_terms) answers
delete_terms_embedding(t, ok) ==
    /\ tasks[t].pc = "terms_embedding"
    /\ SetTask(t, IF ok THEN [tasks[t] EXCEPT !.pc = "terms_search"]
                  ELSE Raised(tasks[t]))
    /\ UNCHANGED <<config, collection>>

\* the hits whose text holds the search terms, case aside
MatchingResults(hits, search_terms) ==
    SelectSeq(hits, LAMBDA hit : IsSubstring(Lower(search_terms),
                                             Lower(hit.payload.text)))

delete_terms_search(t, ok) ==
    /\ tasks[t].pc = "terms_search"
    /\ IF ok /\ Usable
       THEN \E hits \in SearchHits(collection.points, tasks[t].username,
                                   TermsLimit) :
              LET matching_results == MatchingResults(hits, tasks[t].query)
                  tk == [tasks[t] EXCEPT !.hits = hits,
                                         !.count = Len(matching_results)]
              IN SetTask(t, IF matching_results = <<>> \/ tasks[t].preview_only
                            THEN [tk EXCEPT !.pc = "returned"]
                            ELSE [tk EXCEPT
                                    !.pc = "delete_matching",
                                    !.found = {matching_results[i].id :
                                                  i \in DOMAIN matching_results}])
       ELSE SetTask(t, Raised(tasks[t]))
    /\ UNCHANGED <<config, collection>>

delete_terms_delete(t, ok) ==
    /\ tasks[t].pc = "delete_matching"
    /\ IF ok /\ collection.exists
       THEN /\ collection' = [collection EXCEPT
                    !.points = {p \in @ : p.id \notin tasks[t].found}]
            /\ SetTask(t, [tasks[t] EXCEPT !.pc = "returned"])
       ELSE /\ UNCHANGED collection
            /\ SetTask(t, Raised(tasks[t]))
    /\ UNCHANGED config

\* ---- ensure_collection_exists called on its own
ensure_collection_exists(t) ==
    /\ ~InFlight(t)
    /\ SetTask(t, [Call(t, "ensure_collection_exists", "") EXCEPT
                      !.repeat = /\ tasks[t].op = "ensure_collection_exists"
                                 /\ tasks[t].pc = "returned"])
    /\ UNCHANGED <<config, collection>>

\* ------------------------------------------------------------------- Init
InitCollections ==
    {NoCollection} \cup
    {[exists |-> TRUE, size |-> d, points |-> ps,
      indexes |-> {"username", "content_type", "timestamp"}] :
        d \in {768, 1536}, ps \in InitPointSets}

\* a fresh process: nothing cached, no cache file yet, no coroutine running
InitProcess ==
    /\ search_cache = <<>>
    /\ search_cache_file = <<>>
    /\ user_modes = NoModes
    /\ user_modes_file = NoModes
    /\ now = 0
    /\ last_put = NoPut
    /\ tasks = [t \in {1} |-> IdleTask]
    /\ probe = NoProbe
    /\ listed = NoListed
    /\ purged = NoPurged
    /\ user_data = NoUserData

Init ==
    /\ InitProcess
    /\ config \in Configs
    /\ collection \in InitCollections
    /\ next_id = 3

\* the cache does not look at the store: one store state is enough
InitCache ==
    /\ InitProcess
    /\ config = [provider |-> "OpenAI", embedding_model |-> "text-embedding-3-small"]
    /\ collection = NoCollection
    /\ next_id = 3

\* a large knowledge base: one owner holds one point more than the dummy
\* search of clear_all_memories asks for
BulkCount == SearchAllLimit + 1
InitBulk ==
    /\ InitProcess
    /\ config = [provider |-> "OpenAI", embedding_model |-> "text-embedding-3-small"]
    /\ \E n \in {0, 1, BulkCount} :
          collection =
            [exists |-> TRUE, size |-> 1536,
             points |-> {Point(i, "paris", "u1", NoMeta, 0) : i \in 1..n}
                        \cup {Point(BulkCount + 1, "rome", "7", NoMeta, 0)},
             indexes |-> {"username", "content_type", "timestamp"}]
    /\ next_id = BulkCount + 2

\* ----------------------------------------------------- cache operations
\* the clock moves on by a day
Tick ==
    /\ now \div DaySeconds < MaxDays
    /\ now' = now + DaySeconds
    /\ last_put' = NoPut
    /\ UNCHANGED <<search_cache, search_cache_file, user_modes, user_modes_file>>
    /\ UNCHANGED <<store_vars, probe, listed, purged, user_data>>

\* mutant: a put whose save fails is taken back from memory
cache_search_result_undone(query, results, username, ok) ==
    /\ now % DaySeconds < MaxPuts
    /\ now' = now + 1
    /\ search_cache' = IF ok THEN CachePut(search_cache, query, results, username, now')
                       ELSE search_cache
    /\ search_cache_file' = SaveSearchCache(search_cache', ok)
    /\ last_put' = [key |-> CacheKey(username, query),
                    existed |-> CacheKey(username, query) \in Keys(search_cache),
                    evicted |-> Evicted(search_cache, query, username)]
    /\ UNCHANGED <<user_modes, user_modes_file>>

cache_search_result(query, results, username, ok) ==
    /\ now % DaySeconds < MaxPuts
    /\ now' = now + 1
    /\ search_cache' = CachePut(search_cache, query, results, username, now')
    /\ search_cache_file' = SaveSearchCache(search_cache', ok)
    /\ last_put' = [key |-> CacheKey(username, query),
                    existed |-> CacheKey(username, query) \in Keys(search_cache),
                    evicted |-> Evicted(search_cache, query, username)]
    /\ UNCHANGED <<user_modes, user_modes_file>>

\* mutant: an entry exactly at the cutoff goes too
clear_old_cache_inclusive(max_age_days, ok) ==
    LET cutoff_time == now - max_age_days * DaySeconds
        to_remove == {search_cache[i].key : i \in
                        {j \in DOMAIN search_cache :
                            search_cache[j].timestamp <= cutoff_time}}
    IN /\ search_cache' = RemoveKeys(search_cache, to_remove)
       /\ search_cache_file' =
            IF to_remove # {} THEN SaveSearchCache(search_cache', ok)
            ELSE search_cache_file
       /\ last_put' = NoPut
       /\ UNCHANGED <<user_modes, user_modes_file, now>>

clear_old_cache(max_age_days, ok) ==
    LET cutoff_time == now - max_age_days * DaySeconds
        to_remove == {search_cache[i].key : i \in
                        {j \in DOMAIN search_cache :
                            search_cache[j].timestamp < cutoff_time}}
    IN /\ search_cache' = RemoveKeys(search_cache, to_remove)
       /\ search_cache_file' =
            IF to_remove # {} THEN SaveSearchCache(search_cache', ok)
            ELSE search_cache_file
       /\ last_put' = NoPut
       /\ UNCHANGED <<user_modes, user_modes_file, now>>

clear_user_search_cache(username, search_terms, ok) ==
    LET search_terms_lower == Lower(search_terms)
        to_remove == {search_cache[i].key : i \in
                        {j \in DOMAIN search_cache :
                            /\ search_cache[j].username = username
                            /\ IsSubstring(search_terms_lower,
                                           Lower(search_cache[j].query))}}
    IN /\ search_cache' = RemoveKeys(search_cache, to_remove)
       /\ search_cache_file' =
            IF to_remove # {} THEN SaveSearchCache(search_cache', ok)
            ELSE search_cache_file
       /\ last_put' = NoPut
       /\ UNCHANGED <<user_modes, user_modes_file, now>>

\* str(user_id)
StrOf(user_id) == IF user_id = 7 THEN "7" ELSE "0"

clear_all_user_cache(username, ok) ==
    LET to_remove == {search_cache[i].key : i \in
                        {j \in DOMAIN search_cache :
                            search_cache[j].username = username}}
        hits == {u \in DOMAIN user_modes :
                    user_modes[u].mode # "" /\ StrOf(u) = username}
        \* "if user_id_to_remove:" is false for the id 0
        gone == {u \in hits : u # 0}
    IN /\ search_cache' = RemoveKeys(search_cache, to_remove)
       /\ user_modes' = [u \in DOMAIN user_modes \ gone |-> user_modes[u]]
       /\ search_cache_file' =
            IF to_remove # {} THEN SaveSearchCache(search_cache', ok)
            ELSE search_cache_file
       /\ user_modes_file' =
            IF gone # {} THEN SaveUserModes(user_modes', ok)
            ELSE user_modes_file
       /\ last_put' = NoPut
       /\ UNCHANGED now

set_user_mode(user_id, mode, ok) ==
    /\ user_modes' = [u \in DOMAIN user_modes \cup {user_id} |->
                        IF u = user_id
                        THEN [user_id |-> user_id, mode |-> mode, timestamp |-> now]
                        ELSE user_modes[u]]
    /\ user_modes_file' = SaveUserModes(user_modes', ok)
    /\ last_put' = NoPut
    /\ UNCHANGED <<search_cache, search_cache_file, now>>

\* ---------------------------------------------- the cache on its own
PutCall ==
    /\ \E q \in Queries, r \in ResultLists, u \in Owners :
          cache_search_result(q, r, u, TRUE)
    /\ UNCHANGED <<store_vars, probe, listed, purged, user_data>>
ClearOldCall ==
    /\ \E d \in {0, 1} : clear_old_cache(d, TRUE)
    /\ UNCHANGED <<store_vars, probe, listed, purged, user_data>>
ClearUserCall ==
    /\ \E u \in Owners, terms \in {"hi", "PYTHON"} :
          clear_user_search_cache(u, terms, TRUE)
    /\ UNCHANGED <<store_vars, probe, listed, purged, user_data>>
ClearAllUserCall ==
    /\ \E u \in Owners : clear_all_user_cache(u, TRUE)
    /\ UNCHANGED <<store_vars, probe, listed, purged, user_data>>
SetModeCall ==
    /\ \E id \in UserIds, m \in Modes : set_user_mode(id, m, TRUE)
    /\ UNCHANGED <<store_vars, probe, listed, purged, user_data>>

NextCache ==
    \/ PutCall
    \/ ClearOldCall
    \/ ClearUserCall
    \/ ClearAllUserCall
    \/ Tick

SpecCache == InitCache /\ [][NextCache]_vars

Entries(cache) == {cache[i] : i \in DOMAIN cache}

\* C1: whatever puts and purges are made from an empty cache, the number of
\* entries in search_cache, over all owners, is at most max_search_cache.
C1_CapacityBound == Len(search_cache) <= max_search_cache

\* a put has just evicted an entry and the cache is full
C1_Witness ==
    /\ Len(search_cache) = max_search_cache
    /\ last_put.evicted # <<>>

\* C2: a put of a key that is not cached into a full cache removes exactly one
\* prior entry, the one put least recently; every other prior entry stays.
C2_Step(q, r, u) ==
    (/\ Len(search_cache) = max_search_cache
     /\ CacheKey(u, q) \notin Keys(search_cache)
     /\ cache_search_result(q, r, u, TRUE))
    => \E e \in Entries(search_cache) :
          /\ e \notin Entries(search_cache')
          /\ \A x \in Entries(search_cache) \ {e} :
                x \in Entries(search_cache') /\ x.timestamp > e.timestamp
          /\ CacheKey(u, q) \in Keys(search_cache')
          /\ Len(search_cache') = max_search_cache

C2_EvictsLeastRecent ==
    [][\A q \in Queries, r \in ResultLists, u \in Owners : C2_Step(q, r, u)]_vars

\* the latest put was of a new key into a full cache and evicted one entry
C2_Witness ==
    /\ ~last_put.existed
    /\ Len(last_put.evicted) = 1
    /\ Len(search_cache) = max_search_cache
    /\ last_put.key = search_cache[Len(search_cache)].key

\* C3: a put of a key that is cached moves the entry to the most recent
\* position with the new results and timestamp; the count, the key set and
\* the order of the other entries stay, and nothing is evicted.
C3_Step(q, r, u) ==
    (/\ CacheKey(u, q) \in Keys(search_cache)
     /\ cache_search_result(q, r, u, TRUE))
    => LET n == Len(search_cache')
           key == CacheKey(u, q)
       IN /\ n = Len(search_cache)
          /\ Keys(search_cache') = Keys(search_cache)
          /\ search_cache'[n].key = key
          /\ search_cache'[n].results = r
          /\ search_cache'[n].timestamp = now'
          /\ \A i \in 1..(n - 1) :
                search_cache'[i].timestamp < search_cache'[n].timestamp
          /\ RemoveKeys(search_cache', {key}) = RemoveKeys(search_cache, {key})

C3_RefreshKeepsCount ==
    [][\A q \in Queries, r \in ResultLists, u \in Owners : C3_Step(q, r, u)]_vars

\* the latest put was of a cached key, with two other entries around it
C3_Witness ==
    /\ last_put.existed
    /\ Len(search_cache) = max_search_cache
    /\ max_search_cache >= 3
    /\ last_put.key = search_cache[Len(search_cache)].key

\* ------------------------------------------- the vector store on its own
StoreCall ==
    /\ \E t \in TaskIds, text \in Texts, u \in Owners, m \in Metadatas :
          store_in_vector_db(t, text, u, m)
    /\ UNCHANGED <<cache_vars, now, probe, listed, purged, user_data>>
SearchCall ==
    /\ \E t \in TaskIds, u \in Owners, limit \in {1, 5} :
          \/ search_vector_db_enhanced(t, u, limit)
          \/ search_vector_db(t, u, limit)
    /\ UNCHANGED <<cache_vars, now, probe, listed, purged, user_data>>
ClearAllCall ==
    /\ \E t \in TaskIds, u \in Owners, preview_only \in BOOLEAN :
          clear_all_memories(t, u, preview_only)
    /\ UNCHANGED <<cache_vars, now, probe, listed, purged, user_data>>
EnsureCall ==
    /\ \E t \in TaskIds : ensure_collection_exists(t)
    /\ UNCHANGED <<cache_vars, now, probe, listed, purged, user_data>>
\* a response of the vector store arrives (ok), or the call fails
GetCollectionStep ==
    /\ \E t \in TaskIds, ok \in BOOLEAN : ensure_get_collection(t, ok)
    /\ UNCHANGED <<cache_vars, now, probe, listed, purged, user_data>>
DeleteCollectionStep ==
    /\ \E t \in TaskIds, ok \in BOOLEAN : ensure_delete_collection(t, ok)
    /\ UNCHANGED <<cache_vars, now, probe, listed, purged, user_data>>
CreateCollectionStep ==
    /\ \E t \in TaskIds, ok \in BOOLEAN : ensure_create_collection(t, ok)
    /\ UNCHANGED <<cache_vars, now, probe, listed, purged, user_data>>
IndexStep ==
    /\ \E t \in TaskIds, ok \in BOOLEAN : ensure_indexes_exist(t, ok)
    /\ UNCHANGED <<cache_vars, now, probe, listed, purged, user_data>>
\* mutant: a write drops what the cache holds for the writer
UpsertStepInvalidates ==
    /\ \E t \in TaskIds, ok \in BOOLEAN :
          /\ store_upsert(t, ok)
          /\ clear_all_user_cache(tasks[t].username, TRUE)
    /\ UNCHANGED <<probe, listed, purged, user_data>>

UpsertStep ==
    /\ \E t \in TaskIds, ok \in BOOLEAN : store_upsert(t, ok)
    /\ UNCHANGED <<cache_vars, now, probe, listed, purged, user_data>>
SearchStep ==
    /\ \E t \in TaskIds, ok \in BOOLEAN : search_response(t, ok)
    /\ UNCHANGED <<cache_vars, now, probe, listed, purged, user_data>>
ClearAllSearchStep ==
    /\ \E t \in TaskIds, ok \in BOOLEAN : clear_all_search(t, ok)
    /\ UNCHANGED <<cache_vars, now, probe, listed, purged, user_data>>
ClearAllDeleteStep ==
    /\ \E t \in TaskIds, ok \in BOOLEAN : clear_all_delete(t, ok)
    /\ UNCHANGED <<cache_vars, now, probe, listed, purged, user_data>>

SearchTerms == {"PAR", " "}
DeleteTermsCall ==
    /\ \E t \in TaskIds, terms \in SearchTerms, u \in Owners,
          preview_only \in BOOLEAN :
          delete_memories_by_terms(t, terms, u, preview_only)
    /\ UNCHANGED <<cache_vars, now, probe, listed, purged, user_data>>
TermsEmbeddingStep ==
    /\ \E t \in TaskIds, ok \in BOOLEAN : delete_terms_embedding(t, ok)
    /\ UNCHANGED <<cache_vars, now, probe, listed, purged, user_data>>
TermsSearchStep ==
    /\ \E t \in TaskIds, ok \in BOOLEAN : delete_terms_search(t, ok)
    /\ UNCHANGED <<cache_vars, now, probe, listed, purged, user_data>>
TermsDeleteStep ==
    /\ \E t \in TaskIds, ok \in BOOLEAN : delete_terms_delete(t, ok)
    /\ UNCHANGED <<cache_vars, now, probe, listed, purged, user_data>>

EnsureSteps ==
    \/ GetCollectionStep
    \/ DeleteCollectionStep
    \/ CreateCollectionStep
    \/ IndexStep

\* one operation at a time: a call starts when no other is in flight
NextStore ==
    \/ Quiet /\ StoreCall
    \/ Quiet /\ SearchCall
    \/ Quiet /\ ClearAllCall
    \/ Quiet /\ EnsureCall
    \/ EnsureSteps
    \/ UpsertStep
    \/ SearchStep
    \/ ClearAllSearchStep
    \/ ClearAllDeleteStep
    \/ Quiet /\ DeleteTermsCall
    \/ TermsEmbeddingStep
    \/ TermsSearchStep
    \/ TermsDeleteStep

SpecStore == Init /\ [][NextStore]_vars

SearchOps == {"search_vector_db_enhanced", "search_vector_db"}

\* C4: every point a search for owner A returns was written by a
\* store_in_vector_db call whose username argument was A, whatever metadata
\* the callers supplied.
C4_OwnerIsolation ==
    \A t \in TaskIds :
        (tasks[t].op \in SearchOps /\ tasks[t].pc = "returned")
        => \A i \in DOMAIN tasks[t].hits :
              tasks[t].hits[i].writer = tasks[t].username

\* C9: when the collection exists with a vector size other than the one the
\* configuration expects, then once ensure_collection_exists has returned the
\* collection exists with the expected size and holds none of the points it
\* held before, of any owner.
C9_MismatchRecreates ==
    \A t \in TaskIds :
        (/\ tasks[t].op = "ensure_collection_exists"
         /\ tasks[t].pc = "returned"
         /\ tasks[t].seen.exists
         /\ tasks[t].seen.size # ExpectedDims)
        => /\ collection.exists
           /\ collection.size = ExpectedDims
           /\ collection.points \cap tasks[t].seen.points = {}

\* ensure_collection_exists has returned from a mismatched collection that held points
C9_Witness ==
    \E t \in TaskIds :
        /\ tasks[t].op = "ensure_collection_exists"
        /\ tasks[t].pc = "returned"
        /\ tasks[t].seen.exists
        /\ tasks[t].seen.size # ExpectedDims
        /\ tasks[t].seen.points # {}

\* C13: while ensure_collection_exists runs for the second time right after a
\* call of it that returned, and when it has returned or raised, the collection
\* has the vector size and the points it had when the second call began, and
\* that size is the expected one; a call that finds a collection of the
\* expected size leaves its points alone.
C13_EnsureIdempotent ==
    \A t \in TaskIds :
        LET tk == tasks[t]
        IN (tk.op = "ensure_collection_exists")
           => /\ tk.repeat =>
                    /\ tk.seen.exists /\ tk.seen.size = ExpectedDims
                    /\ collection.exists
                    /\ collection.size = tk.seen.size
                    /\ collection.points = tk.seen.points
              /\ (tk.seen.exists /\ tk.seen.size = ExpectedDims) =>
                    /\ collection.exists
                    /\ collection.size = tk.seen.size
                    /\ collection.points = tk.seen.points

\* a second call in a row has returned on a collection that holds points
C13_Witness ==
    \E t \in TaskIds :
        /\ tasks[t].op = "ensure_collection_exists"
        /\ tasks[t].repeat
        /\ tasks[t].pc = "returned"
        /\ collection.points # {}

StoreOps ==
    {"store_in_vector_db", "search_vector_db_enhanced", "search_vector_db",
     "delete_memories_by_terms", "clear_all_memories"}
EnsurePcs ==
    {"get_collection", "delete_collection", "create_collection",
     "create_collection_except", "index_username", "index_content_type",
     "index_timestamp"}

\* C14: a store operation is inside ensure_collection_exists until that has
\* returned; when ensure_collection_exists fails, the operation raises
\* DatabaseError and the stored points are those the collection held when the
\* operation was called.
C14_BootstrapFailureKeepsPoints ==
    \A t \in TaskIds :
        LET tk == tasks[t]
        IN (tk.op \in StoreOps /\ ~tk.ensured)
           => /\ tk.pc \in EnsurePcs \cup {"raised"}
              /\ tk.pc = "raised" =>
                    /\ tk.error = "DatabaseError"
                    /\ collection.points = tk.seen.points

\* ------------------------------------------- clearing a large knowledge base
NextBulk ==
    \/ Quiet /\ ClearAllCall
    \/ GetCollectionStep
    \/ CreateCollectionStep
    \/ IndexStep
    \/ ClearAllSearchStep
    \/ ClearAllDeleteStep

SpecBulk == InitBulk /\ [][NextBulk]_vars

\* C8: for any number of points of an owner, a preview returns that number and
\* leaves the store as it was, and a deletion removes exactly that many, all
\* of them the owner's, so that the owner has no point left (a following
\* preview returns 0).
C8_ClearAllExact ==
    \A t \in TaskIds :
        (tasks[t].op = "clear_all_memories" /\ tasks[t].pc = "returned")
        => LET before == UserFilter(tasks[t].seen.points, tasks[t].username)
               after == UserFilter(collection.points, tasks[t].username)
           IN /\ tasks[t].count = Cardinality(before)
              /\ tasks[t].preview_only => collection.points = tasks[t].seen.points
              /\ ~tasks[t].preview_only =>
                    /\ after = {}
                    /\ collection.points = tasks[t].seen.points \ before

\* ------------------------------------------------------- the query engine
EngineOps == {"search_cache_first", "query_knowledge_base"}
\* the questions asked: a short one, two of which one contains the other,
\* and a blank one
EngineQueries == Queries \cup {"python tutorials for beginners", " "}
\* handle_ask_internal asks for 8 results when the query has no keyword
Limits == {8}
NoInfoMessage ==
    "I couldn't find any relevant information in your knowledge base for this query."
\* what the chat backend may answer with
ChatTexts == {"Paris.", ""}
ChatOutcomes == {"content", "none", "fail"}
\* get_cached_searches(username, limit=20)
CacheWindow == 20
\* limit = min(limit * 2, 20)
LimitCap == 20
\* len(query) > 10
FuzzyMinLen == 10
Keywords == {"all", "list", "every", "entire", "complete"}

\* mutant: the length rule admits queries of exactly ten characters
QueryMatchesFromTen(cached_query, query) ==
    LET cached_lower == Lower(cached_query)
        query_lower == Lower(query)
    IN \/ cached_lower = query_lower
       \/ Len(query) >= FuzzyMinLen /\ IsSubstring(query_lower, cached_lower)
       \/ Len(cached_query) >= FuzzyMinLen /\ IsSubstring(cached_lower, query_lower)

\* the test search_cache_first applies to a cached search and the new query
QueryMatches(cached_query, query) ==
    LET cached_lower == Lower(cached_query)
        query_lower == Lower(query)
    IN \/ cached_lower = query_lower
       \/ Len(query) > FuzzyMinLen /\ IsSubstring(query_lower, cached_lower)
       \/ Len(cached_query) > FuzzyMinLen /\ IsSubstring(cached_lower, query_lower)

\* mutant: an entry of exactly the query is preferred to a newer loose match
FirstMatchExactFirst(cached_searches, query) ==
    LET E == {i \in DOMAIN cached_searches :
                 Lower(cached_searches[i].query) = Lower(query)}
        M == {i \in DOMAIN cached_searches :
                 QueryMatches(cached_searches[i].query, query)}
    IN IF E # {} THEN CHOOSE i \in E : \A j \in E : i <= j
       ELSE IF M = {} THEN 0 ELSE CHOOSE i \in M : \A j \in M : i <= j

\* for cached_search in cached_searches: the first one that matches, 0 if none
FirstMatch(cached_searches, query) ==
    LET M == {i \in DOMAIN cached_searches :
                 QueryMatches(cached_searches[i].query, query)}
    IN IF M = {} THEN 0 ELSE CHOOSE i \in M : \A j \in M : i <= j

\* mutant: the keywords are looked for in the query as typed
SearchLimitAsTyped(query, limit) ==
    IF \E word \in Keywords : IsSubstring(word, query)
    THEN Min(limit * 2, LimitCap)
    ELSE limit

\* the limit query_knowledge_base searches with
SearchLimit(query, limit) ==
    IF \E word \in Keywords : IsSubstring(word, Lower(query))
    THEN Min(limit * 2, LimitCap)
    ELSE limit

\* every question may end in one cache put: questions start while fewer than
\* MaxAsks puts were made or may yet be made
PutBudget ==
    (now % DaySeconds) + Cardinality({t \in TaskIds : InFlight(t)}) < MaxAsks

Asked(op, query, username, limit) ==
    [IdleTask EXCEPT
        !.op = op, !.query = query, !.username = username, !.limit = limit,
        !.asked_limit = limit,
        !.had_entry = \E e \in Entries(search_cache) :
                          /\ e.key = CacheKey(username, query)
                          /\ e.username = username /\ e.query = query
                          /\ e.results # <<>>,
        !.had_match = \E e \in Entries(search_cache) :
                          e.username = username /\ QueryMatches(e.query, query),
        !.entry_results =
            LET own == {e \in Entries(search_cache) :
                           e.username = username /\ e.query = query}
            IN IF own = {} THEN <<>> ELSE (CHOOSE e \in own : TRUE).results]

\* query_knowledge_base up to its first await: the limit rule, then
\* generate_embedding, which refuses a blank text before it calls the backend
QueryFrom(tk) ==
    LET called == [tk EXCEPT !.limit = SearchLimit(tk.query, tk.limit),
                             !.calls = @ \o <<"generate_embedding">>]
    IN IF Strip(tk.query) = "" THEN Raised(called)
       ELSE [called EXCEPT !.pc = "embedding"]

\* history: the question of a task went to the store, found results and its
\* chat call gave no text
ChatFailedOnMiss(tk) ==
    /\ tk.op = "search_cache_first"
    /\ tk.pc = "raised"
    /\ ~tk.hit
    /\ tk.searched
    /\ tk.chat \in {"fail", "none"}

\* mutant: a cache hit answers from the matched entry without putting it again
search_cache_first_no_refresh(t, query, username, limit, ok) ==
    /\ ~InFlight(t)
    /\ PutBudget
    /\ LET cached_searches == GetCachedSearches(search_cache, username, CacheWindow)
           m == FirstMatch(cached_searches, query)
           tk == [Asked("search_cache_first", query, username, limit) EXCEPT
                     !.repeat = /\ ChatFailedOnMiss(tasks[t])
                                /\ tasks[t].query = query
                                /\ tasks[t].username = username]
       IN IF m # 0
          THEN /\ UNCHANGED <<cache_vars, now>>
               /\ SetTask(t, [tk EXCEPT !.hit = TRUE, !.pc = "chat",
                                 !.matched_query = cached_searches[m].query,
                                 !.results = cached_searches[m].results,
                                 !.calls = <<"chat_completion">>])
          ELSE /\ SetTask(t, QueryFrom(tk))
               /\ UNCHANGED <<cache_vars, now>>
    /\ UNCHANGED <<config, collection, probe, listed, purged, user_data>>

\* search_cache_first up to its first await
search_cache_first(t, query, username, limit, ok) ==
    /\ ~InFlight(t)
    /\ PutBudget
    /\ LET cached_searches == GetCachedSearches(search_cache, username, CacheWindow)
           m == FirstMatch(cached_searches, query)
           tk == [Asked("search_cache_first", query, username, limit) EXCEPT
                     !.repeat = /\ ChatFailedOnMiss(tasks[t])
                                /\ tasks[t].query = query
                                /\ tasks[t].username = username]
       IN IF m # 0
          THEN /\ cache_search_result(query, cached_searches[m].results,
                                      username, ok)
               /\ SetTask(t, IF cached_searches[m].results # <<>>
                             THEN [tk EXCEPT
                                     !.hit = TRUE, !.pc = "chat",
                                     !.matched_query = cached_searches[m].query,
                                     !.results = cached_searches[m].results,
                                     !.calls = <<"cache_search_result",
                                                 "chat_completion">>]
                             ELSE [tk EXCEPT
                                     !.hit = TRUE, !.pc = "returned",
                                     !.matched_query = cached_searches[m].query,
                                     !.result = NoInfoMessage,
                                     !.calls = <<"cache_search_result">>])
          ELSE /\ SetTask(t, QueryFrom(tk))
               /\ UNCHANGED <<cache_vars, now>>
    /\ UNCHANGED <<config, collection, probe, listed, purged, user_data>>

\* query_knowledge_base called directly (the link processor does)
query_knowledge_base(t, query, username, limit) ==
    /\ ~InFlight(t)
    /\ PutBudget
    /\ SetTask(t, QueryFrom(Asked("query_knowledge_base", query, username, limit)))
    /\ UNCHANGED <<cache_vars, now, config, collection, probe, listed, purged, user_data>>

\* generate_embedding answers: search_vector_db_enhanced begins with
\* ensure_collection_exists
embedding_response(t, ok) ==
    /\ tasks[t].pc = "embedding"
    /\ SetTask(t, IF ok
                  THEN [tasks[t] EXCEPT
                          !.pc = "get_collection", !.seen = collection,
                          !.calls = @ \o <<"search_vector_db_enhanced">>]
                  ELSE Raised(tasks[t]))
    /\ UNCHANGED <<cache_vars, now, config, collection, probe, listed, purged, user_data>>

\* mutant: an empty search result goes on to the cache and the chat model
query_search_response_no_shortcut(t, ok, saved) ==
    /\ tasks[t].pc = "search"
    /\ tasks[t].op \in EngineOps
    /\ IF ok /\ Usable
       THEN \E hits \in SearchHits(collection.points, tasks[t].username,
                                   tasks[t].limit) :
               LET tk == [tasks[t] EXCEPT !.hits = hits, !.searched = TRUE,
                                          !.results = FormatResults(hits)]
               IN /\ cache_search_result(tk.query, tk.results, tk.username, saved)
                  /\ SetTask(t, [tk EXCEPT
                                   !.pc = "chat",
                                   !.calls = @ \o <<"cache_search_result",
                                                    "chat_completion">>])
       ELSE /\ SetTask(t, Raised(tasks[t]))
            /\ UNCHANGED <<cache_vars, now>>
    /\ UNCHANGED <<config, collection, probe, listed, purged, user_data>>

\* mutant: the results found are not put in the cache before the chat call
query_search_response_uncached(t, ok, saved) ==
    /\ tasks[t].pc = "search"
    /\ tasks[t].op \in EngineOps
    /\ IF ok /\ Usable
       THEN \E hits \in SearchHits(collection.points, tasks[t].username,
                                   tasks[t].limit) :
               LET tk == [tasks[t] EXCEPT !.hits = hits, !.searched = TRUE,
                                          !.results = FormatResults(hits)]
               IN SetTask(t, IF tk.results = <<>>
                             THEN [tk EXCEPT !.pc = "returned",
                                             !.result = NoInfoMessage]
                             ELSE [tk EXCEPT
                                     !.pc = "chat",
                                     !.calls = @ \o <<"cache_search_result",
                                                      "chat_completion">>])
       ELSE SetTask(t, Raised(tasks[t]))
    /\ UNCHANGED <<cache_vars, now>>
    /\ UNCHANGED <<config, collection, probe, listed, purged, user_data>>

\* the search of search_vector_db_enhanced answers and query_knowledge_base
\* goes on to its next await or returns
query_search_response(t, ok, saved) ==
    /\ tasks[t].pc = "search"
    /\ tasks[t].op \in EngineOps
    /\ IF ok /\ Usable
       THEN \E hits \in SearchHits(collection.points, tasks[t].username,
                                   tasks[t].limit) :
               LET tk == [tasks[t] EXCEPT !.hits = hits, !.searched = TRUE,
                                          !.results = FormatResults(hits)]
               IN IF tk.results = <<>>
                  THEN /\ SetTask(t, [tk EXCEPT !.pc = "returned",
                                                !.result = NoInfoMessage])
                       /\ UNCHANGED <<cache_vars, now>>
                  ELSE /\ cache_search_result(tk.query, tk.results,
                                              tk.username, saved)
                       /\ SetTask(t, [tk EXCEPT
                                        !.pc = "chat",
                                        !.calls = @ \o <<"cache_search_result",
                                                         "chat_completion">>])
       ELSE /\ SetTask(t, Raised(tasks[t]))
            /\ UNCHANGED <<cache_vars, now>>
    /\ UNCHANGED <<config, collection, probe, listed, purged, user_data>>

\* mutant: the answer is dressed up before it is returned
chat_response_decorated(t, outcome, text) ==
    /\ tasks[t].pc = "chat"
    /\ SetTask(t, IF outcome = "content"
                  THEN [tasks[t] EXCEPT !.pc = "returned", !.chat = "text",
                                        !.reply = text,
                                        !.result = "Answer: " \o text]
                  ELSE Raised([tasks[t] EXCEPT !.chat = outcome]))
    /\ UNCHANGED <<cache_vars, now, config, collection, probe, listed, purged, user_data>>

\* chat_completion answers: a text is returned as it is; a reply without
\* content comes back as None and len(result) raises; a failure raises
\* mutant: a failed chat call is answered with the fixed message
chat_response_fallback(t, outcome, text) ==
    /\ tasks[t].pc = "chat"
    /\ SetTask(t, IF outcome = "content"
                  THEN [tasks[t] EXCEPT !.pc = "returned", !.chat = "text",
                                        !.reply = text, !.result = text]
                  ELSE [tasks[t] EXCEPT !.pc = "returned", !.chat = outcome,
                                        !.result = NoInfoMessage])
    /\ UNCHANGED <<cache_vars, now, config, collection, probe, listed, purged, user_data>>

chat_response(t, outcome, text) ==
    /\ tasks[t].pc = "chat"
    /\ SetTask(t, IF outcome = "content"
                  THEN [tasks[t] EXCEPT !.pc = "returned", !.chat = "text",
                                        !.reply = text, !.result = text]
                  ELSE Raised([tasks[t] EXCEPT !.chat = outcome]))
    /\ UNCHANGED <<cache_vars, now, config, collection, probe, listed, purged, user_data>>

AskCall ==
    \E t \in TaskIds, q \in EngineQueries, u \in Owners, limit \in Limits :
        search_cache_first(t, q, u, limit, TRUE)
QueryCall ==
    \E t \in TaskIds, q \in EngineQueries, u \in Owners, limit \in Limits :
        query_knowledge_base(t, q, u, limit)
EmbeddingStep ==
    \E t \in TaskIds, ok \in BOOLEAN : embedding_response(t, ok)
QuerySearchStep ==
    \E t \in TaskIds, ok \in BOOLEAN : query_search_response(t, ok, TRUE)
ChatStep ==
    \E t \in TaskIds, outcome \in ChatOutcomes, text \in ChatTexts :
        chat_response(t, outcome, text)

\* the engine starts on an OpenAI configuration, with no collection, with a
\* collection of its vector size or with one of another size
InitEngine ==
    /\ InitProcess
    /\ config = [provider |-> "OpenAI", embedding_model |-> "text-embedding-3-small"]
    /\ collection \in
          {NoCollection} \cup
          {[exists |-> TRUE, size |-> d,
            points |-> {Point(1, "paris", "u1", NoMeta, 0),
                        Point(2, "rome", "7", NoMeta, 0)},
            indexes |-> {"username", "content_type", "timestamp"}] :
              d \in {768, 1536}}
    /\ next_id = 3

\* one question at a time
Next ==
    \/ Quiet /\ AskCall
    \/ Quiet /\ QueryCall
    \/ Quiet /\ ClearAllUserCall
    \/ EmbeddingStep
    \/ EnsureSteps
    \/ QuerySearchStep
    \/ ChatStep

Spec == InitEngine /\ [][Next]_vars

SearchCalls == {"generate_embedding", "search_vector_db_enhanced"}
CallsOf(tk) == {tk.calls[i] : i \in DOMAIN tk.calls}
MissPathCalls ==
    <<"generate_embedding", "search_vector_db_enhanced", "cache_search_result",
      "chat_completion">>

\* C5: when the cache holds the entry of (u, q) with non-empty results, put by
\* an earlier question and neither evicted nor purged since, a repeated
\* search_cache_first(q, u) goes to no await of an embedding or a vector
\* search, makes no generate_embedding and no search_vector_db_enhanced call,
\* and leaves q as the query of the newest entry get_cached_searches(u) returns.
C5_Step(t, q, u) ==
    (/\ ~InFlight(t)
     /\ tasks'[t].query = q /\ tasks'[t].username = u
     /\ \E e \in Entries(search_cache) :
           /\ e.key = CacheKey(u, q)
           /\ e.username = u /\ e.query = q /\ e.results # <<>>
     /\ \E limit \in Limits : search_cache_first(t, q, u, limit, TRUE))
    => /\ tasks'[t].pc \in {"chat", "returned"}
       /\ CallsOf(tasks'[t]) \cap SearchCalls = {}
       /\ GetCachedSearches(search_cache', u, 1) # <<>>
       /\ GetCachedSearches(search_cache', u, 1)[1].query = q
       /\ GetCachedSearches(search_cache', u, 1)[1].results # <<>>

C5_Rest(t) ==
    (tasks'[t].op = "search_cache_first" /\ tasks'[t].had_entry)
    => /\ CallsOf(tasks'[t]) \cap SearchCalls = {}
       /\ tasks'[t].pc \in {"chat", "returned", "raised"}
       /\ ~tasks'[t].searched

C5_RepeatIsCacheHit ==
    [][\A t \in TaskIds :
          /\ C5_Rest(t)
          /\ \A q \in EngineQueries, u \in Owners : C5_Step(t, q, u)]_vars

\* a repeated question was answered from the cache after the owner had asked
\* another one in between
C5_Witness ==
    \E t \in TaskIds :
        /\ tasks[t].op = "search_cache_first"
        /\ tasks[t].had_entry
        /\ tasks[t].pc = "returned"
        /\ tasks[t].result = "Paris."
        /\ last_put.existed
        /\ last_put.key = CacheKey(tasks[t].username, tasks[t].query)
        /\ Len(search_cache) >= 2
        /\ search_cache[Len(search_cache) - 1].username = tasks[t].username
        /\ search_cache[Len(search_cache) - 1].query # tasks[t].query
        /\ search_cache[Len(search_cache) - 1].timestamp = now - 1

\* C6: a search_cache_first whose query matched no cached entry of the owner
\* and whose vector search returned at least one result has called, in this
\* order and once each, generate_embedding, search_vector_db_enhanced,
\* cache_search_result (for the owner and the query) and chat_completion; when
\* the chat model answers with a text the call returns exactly that text, and
\* it returns in no other case.
C6_MissPath ==
    \A t \in TaskIds :
        LET tk == tasks[t]
        IN (/\ tk.op = "search_cache_first"
            /\ ~tk.had_match
            /\ tk.searched
            /\ tk.results # <<>>)
           => /\ tk.calls = MissPathCalls
              /\ tk.pc \in {"chat", "returned", "raised"}
              /\ tk.pc = "chat" =>
                    /\ last_put.key = CacheKey(tk.username, tk.query)
                    /\ search_cache[Len(search_cache)].results = tk.results
              /\ tk.chat = "text" => tk.pc = "returned" /\ tk.result = tk.reply
              /\ tk.pc = "returned" => tk.chat = "text"

\* a miss was answered by the chat model while the owner's cache held another query
C6_Witness ==
    \E t \in TaskIds :
        /\ tasks[t].op = "search_cache_first"
        /\ ~tasks[t].had_match
        /\ tasks[t].searched
        /\ tasks[t].results # <<>>
        /\ tasks[t].pc = "returned"
        /\ tasks[t].result = "Paris."
        /\ Len(GetCachedSearches(search_cache, tasks[t].username, CacheWindow)) >= 2

\* C7: whenever the vector search made for a question returns no result, the
\* question is answered with the fixed no-information message, nothing is put
\* in the cache for it and chat_completion is not called.
C7_EmptySearchShortCircuits ==
    \A t \in TaskIds :
        LET tk == tasks[t]
        IN (tk.op \in EngineOps /\ tk.searched /\ tk.hits = <<>>)
           => /\ tk.pc = "returned"
              /\ tk.result = NoInfoMessage
              /\ "chat_completion" \notin CallsOf(tk)
              /\ tk.chat = "pending"

\* a question came back with the fixed message from a collection that holds
\* points, none of them found for the owner
C7_Witness ==
    \E t \in TaskIds :
        /\ tasks[t].op \in EngineOps
        /\ tasks[t].searched
        /\ tasks[t].hits = <<>>
        /\ tasks[t].pc = "returned"
        /\ tasks[t].result = NoInfoMessage
        /\ collection.points # {}

\* ------------------------------------------------- the match test on its own
\* queries around the length rule: ten and eleven characters, upper and lower
\* case, one inside another, an empty and a blank one
MatchQueries ==
    {"", " ", "hi", "Hi", "hi there", "rome", "python tut", "python tuto",
     "Python tutorials", "python tutorials", "python tutorials for beginners"}

\* the condition of the loop in search_cache_first, applied to one cached
\* query and one new query
match_test(cached_query, query) ==
    /\ probe' = [cached |-> cached_query, query |-> query,
                 matched |-> QueryMatches(cached_query, query), asked |-> TRUE]
    /\ UNCHANGED <<cache_vars, now, store_vars, listed, purged, user_data>>

MatchCall == \E cached_query \in MatchQueries, query \in MatchQueries :
                match_test(cached_query, query)

NextMatch == MatchCall

SpecMatch == InitCache /\ [][NextMatch]_vars

\* two strings are the same up to the case of their letters
SameIgnoringCase(a, b) ==
    /\ Len(a) = Len(b)
    /\ \A i \in 1..Len(a) : LowerChar(SubSeq(a, i, i)) = LowerChar(SubSeq(b, i, i))

\* part occurs in whole at some offset, up to the case of the letters
OccursIgnoringCase(part, whole) ==
    \E off \in 0..(Len(whole) - Len(part)) :
        \A i \in 1..Len(part) :
            LowerChar(SubSeq(part, i, i)) = LowerChar(SubSeq(whole, off + i, off + i))

\* C10: a cached query matches a new query q exactly when, letter case aside,
\* they are equal, or q is longer than 10 characters and occurs in the cached
\* query, or the cached query is longer than 10 characters and occurs in q;
\* cached "python tutorials" matches "python tutorials for beginners" and
\* cached "hi" does not match "hi there".
C10_MatchRule ==
    probe.asked =>
        /\ probe.matched <=>
              \/ SameIgnoringCase(probe.cached, probe.query)
              \/ Len(probe.query) > 10 /\ OccursIgnoringCase(probe.query, probe.cached)
              \/ Len(probe.cached) > 10 /\ OccursIgnoringCase(probe.cached, probe.query)
        /\ (probe.cached = "python tutorials"
              /\ probe.query = "python tutorials for beginners") => probe.matched
        /\ (probe.cached = "hi" /\ probe.query = "hi there") => ~probe.matched

\* a cached query of more than ten characters was found inside a longer new
\* query that differs in case
C10_Witness ==
    /\ probe.asked
    /\ probe.matched
    /\ probe.cached = "Python tutorials"
    /\ probe.query = "python tutorials for beginners"

\* ------------------------------------ questions over a cache that holds entries
\* what earlier searches of one query may have found as the store changed
SeenResults == {<<[id |-> 1, text |-> "paris"]>>, <<[id |-> 3, text |-> "lyon"]>>}

\* before the questions that are followed, an earlier question of an owner
\* left its results in the cache
SeedCall ==
    /\ \A t \in TaskIds : tasks[t].op = "none"
    /\ \E q \in EngineQueries \ {" "}, r \in SeenResults :
          cache_search_result(q, r, "u1", TRUE)
    /\ UNCHANGED <<store_vars, probe, listed, purged, user_data>>

\* the store is empty: what is answered from results comes from the cache
NextHit ==
    \/ Quiet /\ SeedCall
    \/ Quiet /\ AskCall
    \/ EmbeddingStep
    \/ GetCollectionStep
    \/ CreateCollectionStep
    \/ IndexStep
    \/ QuerySearchStep
    \/ ChatStep

SpecHit == InitCache /\ [][NextHit]_vars

\* the owner's cached entries that match the query
Matching(cache, u, q) ==
    {e \in Entries(cache) : e.username = u /\ QueryMatches(e.query, q)}

\* C11: a search_cache_first that finds a match among the owner's cached
\* entries (the 20 newest at most) uses the results of the matching entry with
\* the newest timestamp, also when an older entry holds exactly the query.
C11_Step(t, q, u) ==
    (/\ ~InFlight(t)
     /\ tasks'[t].query = q /\ tasks'[t].username = u
     /\ Matching(search_cache, u, q) # {}
     /\ \E limit \in Limits : search_cache_first(t, q, u, limit, TRUE))
    => \E e \in Matching(search_cache, u, q) :
          /\ \A x \in Matching(search_cache, u, q) : x.timestamp <= e.timestamp
          /\ Cardinality({x \in Entries(search_cache) :
                             x.username = u /\ x.timestamp > e.timestamp}) < 20
          /\ tasks'[t].hit
          /\ tasks'[t].results = e.results
          /\ search_cache'[Len(search_cache')].results = e.results

C11_NewestMatchWins ==
    [][\A t \in TaskIds, q \in EngineQueries, u \in Owners : C11_Step(t, q, u)]_vars

\* a question was answered from a newer entry that contains it, while an older
\* entry of exactly that query held other results
C11_Witness ==
    \E t \in TaskIds :
        /\ tasks[t].op = "search_cache_first"
        /\ tasks[t].hit
        /\ tasks[t].pc = "returned"
        /\ tasks[t].had_entry
        /\ tasks[t].matched_query # tasks[t].query
        /\ Lower(tasks[t].matched_query) # Lower(tasks[t].query)
        /\ tasks[t].entry_results # tasks[t].results

\* --------------------------------------------- get_cached_searches on its own
ListLimits == 0..3

\* get_cached_searches(username, limit) called on the cache as it is
get_cached_searches(username, limit) ==
    /\ listed' = [username |-> username, limit |-> limit,
                  entries |-> GetCachedSearches(search_cache, username, limit),
                  asked |-> TRUE]
    /\ UNCHANGED <<cache_vars, now, store_vars, probe, purged, user_data>>

ListCall == \E u \in Owners, limit \in ListLimits : get_cached_searches(u, limit)

\* puts fill the cache, then it is listed
NextRecent ==
    \/ ~listed.asked /\ PutCall
    \/ ListCall

SpecRecent == InitCache /\ [][NextRecent]_vars

\* C12: get_cached_searches(owner, limit) returns at most limit entries, each a
\* cached entry of that owner and none twice, in order of non-increasing
\* timestamp; every entry of the owner that is left out is no newer than any
\* returned one, and entries are left out only when limit are returned.
C12_NewestOfOwner ==
    listed.asked =>
        LET got == listed.entries
            own == {e \in Entries(search_cache) : e.username = listed.username}
            out == own \ {got[i] : i \in DOMAIN got}
        IN /\ Len(got) <= listed.limit
           /\ \A i \in DOMAIN got : got[i] \in own
           /\ \A i, j \in DOMAIN got : i < j =>
                 got[i] # got[j] /\ got[i].timestamp >= got[j].timestamp
           /\ \A e \in out : \A i \in DOMAIN got : e.timestamp <= got[i].timestamp
           /\ out # {} => Len(got) = listed.limit

\* one of an owner's two entries was returned, the older one left out, while
\* another owner's entry was cached too
C12_Witness ==
    /\ listed.asked
    /\ listed.limit = 1
    /\ Len(listed.entries) = 1
    /\ Cardinality({e \in Entries(search_cache) : e.username = listed.username}) = 2
    /\ \E e \in Entries(search_cache) : e.username # listed.username

\* ------------------------------------------- the cache on a failing disk
\* both files show what memory holds: no save has failed yet
Synced ==
    /\ search_cache_file = FileOf(search_cache)
    /\ user_modes_file = user_modes

\* the disk works, then turns unwritable and stays so: a save succeeds only
\* while none has failed
DiskOutcomes == IF Synced THEN BOOLEAN ELSE {FALSE}

\* what is put and set while the disk is watched
SaveResults == {<<[id |-> 1, text |-> "paris"]>>}
SaveModes == {"search"}
\* what is purged: entries older than now, entries that name python
SaveDays == {0}
SaveTerms == {"PYTHON"}

\* every mutation of the cache, with a save that may fail
SavePutCall ==
    /\ \E q \in Queries, r \in SaveResults, u \in Owners, ok \in DiskOutcomes :
          cache_search_result(q, r, u, ok)
    /\ UNCHANGED <<store_vars, probe, listed, purged, user_data>>
SaveClearOldCall ==
    /\ \E d \in SaveDays, ok \in DiskOutcomes : clear_old_cache(d, ok)
    /\ UNCHANGED <<store_vars, probe, listed, purged, user_data>>
SaveClearUserCall ==
    /\ \E u \in Owners, terms \in SaveTerms, ok \in DiskOutcomes :
          clear_user_search_cache(u, terms, ok)
    /\ UNCHANGED <<store_vars, probe, listed, purged, user_data>>
SaveClearAllUserCall ==
    /\ \E u \in Owners, ok \in DiskOutcomes : clear_all_user_cache(u, ok)
    /\ UNCHANGED <<store_vars, probe, listed, purged, user_data>>
\* a user picks the mode on arrival, before anything is asked
SaveSetModeCall ==
    /\ now = 0
    /\ \E id \in UserIds, m \in SaveModes, ok \in DiskOutcomes :
          set_user_mode(id, m, ok)
    /\ UNCHANGED <<store_vars, probe, listed, purged, user_data>>

NextSave ==
    \/ SavePutCall
    \/ SaveClearOldCall
    \/ SaveClearUserCall
    \/ SaveClearAllUserCall
    \/ SaveSetModeCall

SpecSave == InitCache /\ [][NextSave]_vars

\* what a lookup of owner u sees of a cache: the owner's entries, newest first
C15_Seen(cache, u) == GetCachedSearches(cache, u, CacheWindow)

\* the cache with the entries that satisfy gone(e) taken out, order kept
C15_Without(gone(_)) == SelectSeq(search_cache, LAMBDA e : ~gone(e))

\* memory after a put whose save failed: the pair is the newest entry, with
\* the results given; the other prior entries follow in their order, the
\* oldest dropped while there are more than the capacity; a lookup of the
\* same query by the owner finds the pair first
C15_Put(q, r, u) ==
    cache_search_result(q, r, u, FALSE) =>
        LET others == C15_Without(LAMBDA e : e.username = u /\ e.query = q)
            room == max_search_cache - 1
            kept == IF Len(others) > room
                    THEN SubSeq(others, Len(others) - room + 1, Len(others))
                    ELSE others
            seen == C15_Seen(search_cache', u)
        IN /\ Len(search_cache') = Len(kept) + 1
           /\ SubSeq(search_cache', 1, Len(kept)) = kept
           /\ LET e == search_cache'[Len(search_cache')]
              IN /\ e.query = q /\ e.results = r /\ e.username = u
                 /\ e.timestamp = now'
           /\ user_modes' = user_modes
           /\ FirstMatch(seen, q) = 1
           /\ seen[1].results = r

\* memory after a purge whose save failed: exactly the entries the purge is
\* about are gone, and each owner's lookup sees all of that owner's others
C15_Purged(gone(_)) ==
    /\ search_cache' = C15_Without(gone)
    /\ \A u \in Owners :
          Entries(C15_Seen(search_cache', u))
            = {e \in Entries(search_cache) : e.username = u /\ ~gone(e)}

C15_ClearOld(d) ==
    clear_old_cache(d, FALSE) =>
        /\ C15_Purged(LAMBDA e : e.timestamp < now - d * DaySeconds)
        /\ user_modes' = user_modes

C15_ClearUser(u, terms) ==
    clear_user_search_cache(u, terms, FALSE) =>
        /\ C15_Purged(LAMBDA e : e.username = u
                                 /\ IsSubstring(Lower(terms), Lower(e.query)))
        /\ user_modes' = user_modes

C15_ClearAllUser(u) ==
    clear_all_user_cache(u, FALSE) =>
        /\ C15_Purged(LAMBDA e : e.username = u)
        /\ \A id \in DOMAIN user_modes' : user_modes'[id] = user_modes[id]
        /\ DOMAIN user_modes' =
             {id \in DOMAIN user_modes : ~(id # 0 /\ StrOf(id) = u)}

C15_SetMode(id, m) ==
    set_user_mode(id, m, FALSE) =>
        /\ search_cache' = search_cache
        /\ id \in DOMAIN user_modes' /\ user_modes'[id].mode = m
        /\ \A o \in DOMAIN user_modes \ {id} :
              o \in DOMAIN user_modes' /\ user_modes'[o] = user_modes[o]

\* C15: a cache mutation whose file write fails still takes its step (nothing
\* is raised) and leaves search_cache and user_modes as the mutation with a
\* working disk leaves them; get_cached_searches and the match search of
\* search_cache_first then read that in-memory state.
C15_SaveFailureKeepsMemory ==
    [][IF now' # now
       THEN \A q \in Queries, r \in SaveResults, u \in Owners : C15_Put(q, r, u)
       ELSE /\ \A d \in SaveDays : C15_ClearOld(d)
            /\ \A u \in Owners, terms \in SaveTerms :
                  C15_ClearUser(u, terms)
            /\ \A u \in Owners : C15_ClearAllUser(u)
            /\ \A id \in UserIds, m \in SaveModes : C15_SetMode(id, m)]_vars

\* no save has succeeded: memory holds a full cache, after an eviction, and
\* a mode, and neither file shows any of it
C15_Witness ==
    /\ Len(search_cache) = max_search_cache
    /\ last_put.evicted # <<>>
    /\ search_cache_file # FileOf(search_cache)
    /\ user_modes # user_modes_file
    /\ DOMAIN user_modes # {}

\* --------------------------------------------------- owners and the cache
\* the entries of the cache that belong to other owners than u
C16_OthersEntries(cache, u) == {e \in Entries(cache) : e.username # u}

\* C16: a cache operation made for owner u (a put, a purge by terms, a purge
\* of the owner) leaves every entry of every other owner in the cache, as it
\* was.
C16_OwnersNeverContend ==
    [][/\ \A q \in Queries, r \in ResultLists, u \in Owners :
             cache_search_result(q, r, u, TRUE) =>
                 C16_OthersEntries(search_cache, u) \subseteq Entries(search_cache')
       /\ \A u \in Owners, terms \in {"hi", "PYTHON"} :
             clear_user_search_cache(u, terms, TRUE) =>
                 C16_OthersEntries(search_cache, u) \subseteq Entries(search_cache')
       /\ \A u \in Owners :
             clear_all_user_cache(u, TRUE) =>
                 C16_OthersEntries(search_cache, u) \subseteq Entries(search_cache')]_vars

\* ------------------------------------------------------ what a hit changes
\* C17: the put made by a cache hit of search_cache_first is of the pair that
\* matched: the keys of the cache and their number are the same before and
\* after the hit, and nothing is evicted.
C17_HitOnlyRefreshes ==
    [][\A t \in TaskIds :
          (now' # now /\ tasks'[t].op = "search_cache_first" /\ tasks'[t].hit)
          => /\ Keys(search_cache') = Keys(search_cache)
             /\ Len(search_cache') = Len(search_cache)
             /\ last_put'.evicted = <<>>]_vars

\* --------------------------------------------------- failures of a question
\* the adapter a raised question was waiting for: the last one it called
C18_FailedCall(tk) == tk.calls[Len(tk.calls)]

\* C18: a question that fails at generate_embedding raises AIServiceError, and
\* one that fails at the vector search, or at its collection bootstrap, raises
\* DatabaseError.
C18_ErrorKindTellsAdapter ==
    \A t \in TaskIds :
        (tasks[t].op \in EngineOps /\ tasks[t].pc = "raised" /\ tasks[t].calls # <<>>)
        => /\ C18_FailedCall(tasks[t]) = "generate_embedding"
                => tasks[t].error = "AIServiceError"
           /\ C18_FailedCall(tasks[t]) = "search_vector_db_enhanced"
                => tasks[t].error = "DatabaseError"

\* how many times a question called the adapter named
C19_Times(tk, name) == Cardinality({i \in DOMAIN tk.calls : tk.calls[i] = name})

\* C19: a search_cache_first call invokes each of generate_embedding, the
\* vector search and chat_completion at most once; it returns only when every
\* adapter it invoked has answered (the embedding was made, the search
\* responded, the chat model gave a text), and when it raises it returns no
\* answer text.
C19_NoRetryNoPartialAnswer ==
    \A t \in TaskIds :
        LET tk == tasks[t]
        IN tk.op = "search_cache_first" =>
            /\ \A name \in {"generate_embedding", "search_vector_db_enhanced",
                            "chat_completion"} : C19_Times(tk, name) <= 1
            /\ tk.pc = "raised" => tk.result = ""
            /\ tk.chat \in {"none", "fail"} => tk.pc = "raised"
            /\ tk.pc = "returned" =>
                  /\ C19_Times(tk, "generate_embedding") = 1
                        => C19_Times(tk, "search_vector_db_enhanced") = 1
                  /\ C19_Times(tk, "search_vector_db_enhanced") = 1 => tk.searched
                  /\ C19_Times(tk, "chat_completion") = 1 => tk.chat = "text"

\* a miss went through the embedding and the search, cached the results, and
\* was raised at the chat model, which failed
C19_Witness ==
    \E t \in TaskIds :
        /\ tasks[t].op = "search_cache_first"
        /\ tasks[t].calls = MissPathCalls
        /\ tasks[t].chat = "fail"
        /\ tasks[t].pc = "raised"
        /\ tasks[t].result = ""

\* ------------------------------------------------ two questions at once
\* two search_cache_first coroutines on one event loop: each runs from one
\* await to the next without interruption, and the other may run in between.
\* Every adapter answers: the questions here are those that get an answer.
InitPair ==
    /\ search_cache = <<>>
    /\ search_cache_file = <<>>
    /\ user_modes = NoModes
    /\ user_modes_file = NoModes
    /\ now = 0
    /\ last_put = NoPut
    /\ tasks = [t \in {1, 2} |-> IdleTask]
    /\ probe = NoProbe
    /\ listed = NoListed
    /\ purged = NoPurged
    /\ user_data = NoUserData
    /\ config = [provider |-> "OpenAI", embedding_model |-> "text-embedding-3-small"]
    /\ collection =
          [exists |-> TRUE, size |-> 1536,
           points |-> {Point(1, "paris", "u1", NoMeta, 0),
                       Point(2, "rome", "7", NoMeta, 0)},
           indexes |-> {"username", "content_type", "timestamp"}]
    /\ next_id = 3

PairAskCall ==
    \E t \in TaskIds, q \in Queries, u \in Owners, limit \in Limits :
        search_cache_first(t, q, u, limit, TRUE)
PairEmbeddingStep == \E t \in TaskIds : embedding_response(t, TRUE)
PairGetCollectionStep ==
    /\ \E t \in TaskIds : ensure_get_collection(t, TRUE)
    /\ UNCHANGED <<cache_vars, now, probe, listed, purged, user_data>>
PairIndexStep ==
    /\ \E t \in TaskIds : ensure_indexes_exist(t, TRUE)
    /\ UNCHANGED <<cache_vars, now, probe, listed, purged, user_data>>
PairSearchStep == \E t \in TaskIds : query_search_response(t, TRUE, TRUE)
PairChatStep == \E t \in TaskIds, text \in ChatTexts : chat_response(t, "content", text)

NextPair ==
    \/ PairAskCall
    \/ PairEmbeddingStep
    \/ PairGetCollectionStep
    \/ PairIndexStep
    \/ PairSearchStep
    \/ PairChatStep

SpecPair == InitPair /\ [][NextPair]_vars

\* the cache holds the pair of the question tk with the results tk answered
\* from, and no entry of the owner is newer
C20_HoldsNewest(cache, tk) ==
    \E e \in Entries(cache) :
        /\ e.username = tk.username /\ e.query = tk.query
        /\ e.results = tk.results
        /\ \A x \in Entries(cache) :
              x.username = tk.username => x.timestamp <= e.timestamp

\* C20: when search_cache_first returns the answer of chat_completion, the
\* cache at that moment holds the entry of (owner, query) with the results the
\* answer was made from, and it is the owner's most recent entry, also when
\* another question runs between the awaits.
C20_EntryNewestAtReturn ==
    [][\A t \in TaskIds :
          (tasks[t].pc = "chat" /\ tasks'[t].pc = "returned")
          => C20_HoldsNewest(search_cache', tasks'[t])]_vars

\* C20 as amended: a question goes to chat_completion only by a step that puts
\* its pair: right after that step the newest entry of the whole cache is the
\* one of (owner, query), holding the results the answer is then made from;
\* and an answer of chat_completion is returned only from that wait, with the
\* same results.
C20_RefreshBeforeReturn ==
    [][\A t \in TaskIds :
          /\ (tasks[t].pc # "chat" /\ tasks'[t].pc = "chat")
             => /\ search_cache' # <<>>
                /\ LET e == search_cache'[Len(search_cache')]
                   IN /\ e.username = tasks'[t].username
                      /\ e.query = tasks'[t].query
                      /\ e.results = tasks'[t].results
                      /\ e.timestamp = now'
                      /\ \A x \in Entries(search_cache') :
                            x.timestamp <= e.timestamp
                /\ C20_HoldsNewest(search_cache', tasks'[t])
          /\ (tasks'[t] # tasks[t] /\ tasks'[t].pc = "returned"
                /\ tasks'[t].chat = "text")
             => /\ tasks[t].pc = "chat"
                /\ tasks'[t].results = tasks[t].results
                /\ tasks'[t].query = tasks[t].query
                /\ tasks'[t].username = tasks[t].username]_vars

\* a question has returned its answer while the other question of the same
\* owner, put later, still waits for the chat model: the returned question's
\* entry is in the cache but is not the owner's newest
C20_Witness ==
    \E t, o \in TaskIds :
        /\ tasks[t].pc = "returned" /\ tasks[t].chat = "text"
        /\ tasks[o].pc = "chat"
        /\ tasks[o].username = tasks[t].username
        /\ tasks[o].query # tasks[t].query
        /\ search_cache[Len(search_cache)].query = tasks[o].query
        /\ \E e \in Entries(search_cache) :
              /\ e.username = tasks[t].username /\ e.query = tasks[t].query
              /\ e.results = tasks[t].results
        /\ ~C20_HoldsNewest(search_cache, tasks[t])

\* ------------------------------------- questions at once on a full cache
\* a day after three questions were cached, two coroutines ask again and a
\* /forgetall may purge an owner between any two of their steps
RaceEntry(u, q, t) ==
    [key |-> CacheKey(u, q), query |-> q,
     results |-> <<[id |-> 1, text |-> "paris"]>>, timestamp |-> t, username |-> u]

InitRace ==
    /\ search_cache = <<RaceEntry("u1", "Hi", 1), RaceEntry("7", "Hi", 2),
                        RaceEntry("u1", "python tutorials for beginners", 3)>>
    /\ search_cache_file = FileOf(search_cache)
    /\ user_modes = NoModes
    /\ user_modes_file = NoModes
    /\ now = DaySeconds
    /\ last_put = NoPut
    /\ tasks = [t \in {1, 2} |-> IdleTask]
    /\ probe = NoProbe
    /\ listed = NoListed
    /\ purged = NoPurged
    /\ user_data = NoUserData
    /\ config = [provider |-> "OpenAI", embedding_model |-> "text-embedding-3-small"]
    /\ collection =
          [exists |-> TRUE, size |-> 1536,
           points |-> {Point(1, "paris", "u1", NoMeta, 0),
                       Point(2, "rome", "7", NoMeta, 0)},
           indexes |-> {"username", "content_type", "timestamp"}]
    /\ next_id = 3

\* handle_forget_all_confirmation purges the owner's cache in one step
RacePurgeCall ==
    /\ \E u \in Owners : clear_all_user_cache(u, TRUE)
    /\ UNCHANGED <<store_vars, probe, listed, purged, user_data>>

\* the chat model answers
RaceChatStep == \E t \in TaskIds : chat_response(t, "content", "Paris.")

NextRace ==
    \/ PairAskCall
    \/ PairEmbeddingStep
    \/ PairGetCollectionStep
    \/ PairIndexStep
    \/ PairSearchStep
    \/ RaceChatStep
    \/ RacePurgeCall

SpecRace == InitRace /\ [][NextRace]_vars

\* C21: in every interleaving of search_cache_first calls the cache stays
\* within its capacity and holds one entry for a key; a put leaves its entry
\* as the newest one; and an entry leaves the cache only by a put that
\* replaces it under its key, by a put that finds the cache over capacity, or
\* by a purge of its owner.
C21_SerializedCache ==
    [][/\ Len(search_cache') <= max_search_cache
       /\ Cardinality(Keys(search_cache')) = Len(search_cache')
       /\ now' # now =>
             /\ search_cache' # <<>>
             /\ search_cache'[Len(search_cache')].key = last_put'.key
             /\ search_cache'[Len(search_cache')].timestamp = now'
             /\ \A e \in Entries(search_cache) \ Entries(search_cache') :
                   \/ e.key = last_put'.key
                   \/ /\ Len(search_cache') = max_search_cache
                      /\ \A x \in Entries(search_cache) :
                            x.timestamp < e.timestamp
                               => x \notin Entries(search_cache')
       /\ now' = now =>
             \/ search_cache' = search_cache
             \/ \E u \in Owners :
                   /\ clear_all_user_cache(u, TRUE)
                   /\ \A e \in Entries(search_cache) :
                         e.username # u => e \in Entries(search_cache')]_vars

\* both questions are waiting for the chat model, each after its put; the
\* later put found the cache full and evicted the oldest entry
C21_Witness ==
    /\ \A t \in TaskIds : tasks[t].pc = "chat"
    /\ tasks[1].username = tasks[2].username
    /\ tasks[1].query # tasks[2].query
    /\ last_put.evicted # <<>>
    /\ Len(search_cache) = max_search_cache
    /\ {CacheKey(tasks[t].username, tasks[t].query) : t \in TaskIds}
          \subseteq Keys(search_cache)

\* ------------------------------------------------ the limit of the search
\* questions that hold one of the keywords, as a word, inside a word or in
\* capitals, and questions that hold none
KeywordQueries ==
    {"list my notes", "call me", "LIST files", "Every day", "the entire week",
     "Complete it"}
PlainQueries == {"Hi", "lis t", "ever", "al l"}

\* handle_ask_internal: limit = 10 if a keyword is in query.lower() else 8
HandleAskLimit(query) ==
    IF \E word \in Keywords : IsSubstring(word, Lower(query)) THEN 10 ELSE 8

handle_ask_internal(t, query, username) ==
    /\ Strip(query) # ""
    /\ search_cache_first(t, query, username, HandleAskLimit(query), TRUE)

LimitQueryCall ==
    \E t \in TaskIds, q \in KeywordQueries \cup PlainQueries, limit \in 1..MaxLimit :
        query_knowledge_base(t, q, "u1", limit)
LimitAskCall ==
    \E t \in TaskIds, q \in KeywordQueries \cup PlainQueries :
        handle_ask_internal(t, q, "u1")

\* a question is asked; its embedding is made or fails
NextLimit ==
    \/ Quiet /\ LimitQueryCall
    \/ Quiet /\ LimitAskCall
    \/ EmbeddingStep

SpecLimit == InitCache /\ [][NextLimit]_vars

\* C22: the limit a question takes to the vector search is min(2 L, 20) when
\* its query holds a keyword in any case and L otherwise, L being the limit
\* the call was made with; a question that came through handle_ask_internal
\* takes 20 with a keyword and 8 without.
C22_SearchLimitRule ==
    \A t \in TaskIds :
        LET tk == tasks[t]
        IN tk.op \in EngineOps =>
            /\ tk.query \in KeywordQueries =>
                  tk.limit = (IF 2 * tk.asked_limit < 20
                              THEN 2 * tk.asked_limit ELSE 20)
            /\ tk.query \in PlainQueries => tk.limit = tk.asked_limit
            /\ tk.op = "search_cache_first" =>
                  /\ tk.query \in KeywordQueries => tk.limit = 20
                  /\ tk.query \in PlainQueries => tk.limit = 8

\* the embedding of a question in capitals, asked with a limit above ten, has
\* been made: its search is capped at twenty
C22_Witness ==
    \E t \in TaskIds :
        /\ tasks[t].op = "query_knowledge_base"
        /\ tasks[t].query = "LIST files"
        /\ tasks[t].asked_limit = 11
        /\ tasks[t].limit = 20
        /\ tasks[t].pc = "get_collection"

\* ------------------------------------------------ the purge of old entries
\* clear_old_cache called on the cache as it is, its arguments and what it
\* found kept as history
OldClearCall ==
    /\ \E d \in {0, 1} :
          /\ clear_old_cache(d, TRUE)
          /\ purged' = [asked |-> TRUE, max_age_days |-> d, clock |-> now,
                        before |-> search_cache]
    /\ UNCHANGED <<store_vars, probe, listed, user_data>>

\* puts and days fill the cache, then it is purged
NextOld ==
    \/ ~purged.asked /\ PutCall
    \/ ~purged.asked /\ Tick
    \/ OldClearCall

SpecOld == InitCache /\ [][NextOld]_vars

\* where the entry e stands in the cache
C23_Position(cache, e) == CHOOSE i \in DOMAIN cache : cache[i] = e

\* C23: clear_old_cache(max_age_days) removes the entries whose timestamp is
\* earlier than now - max_age_days days and no other: an entry at the cutoff
\* stays, and the entries that stay are unchanged and in the order they had.
C23_ClearOldExact ==
    purged.asked =>
        LET cutoff == purged.clock - purged.max_age_days * 86400
            before == purged.before
        IN /\ Entries(search_cache) =
                 {e \in Entries(before) : ~(e.timestamp < cutoff)}
           /\ Len(search_cache) = Cardinality(Entries(search_cache))
           /\ \A i, j \in DOMAIN search_cache :
                 i < j => C23_Position(before, search_cache[i])
                             < C23_Position(before, search_cache[j])

\* a purge with a cutoff a day back found a full cache, removed the entries
\* older than the cutoff and kept the one put exactly at the cutoff
C23_Witness ==
    /\ purged.asked
    /\ purged.max_age_days = 1
    /\ Len(purged.before) = max_search_cache
    /\ Len(search_cache) = 1
    /\ search_cache[1].timestamp = purged.clock - purged.max_age_days * 86400
    /\ \E e \in Entries(purged.before) : e \notin Entries(search_cache)

\* ------------------------------------------------ writes between questions
\* one coroutine at a time asks or remembers, over a store that holds a point
\* of each owner
InitWrite ==
    /\ InitProcess
    /\ config = [provider |-> "OpenAI", embedding_model |-> "text-embedding-3-small"]
    /\ collection =
          [exists |-> TRUE, size |-> 1536,
           points |-> {Point(1, "paris", "u1", NoMeta, 0),
                       Point(2, "rome", "7", NoMeta, 0)},
           indexes |-> {"username", "content_type", "timestamp"}]
    /\ next_id = 3

WriteAskCall ==
    \E t \in TaskIds, u \in Owners, limit \in Limits :
        search_cache_first(t, "Hi", u, limit, TRUE)
WriteStoreCall ==
    /\ \E t \in TaskIds, u \in Owners :
          store_in_vector_db(t, "rome", u, NoMeta)
    /\ UNCHANGED <<cache_vars, now, probe, listed, purged, user_data>>

NextWrite ==
    \/ Quiet /\ WriteAskCall
    \/ Quiet /\ WriteStoreCall
    \/ EmbeddingStep
    \/ GetCollectionStep
    \/ CreateCollectionStep
    \/ IndexStep
    \/ UpsertStep
    \/ QuerySearchStep
    \/ RaceChatStep

SpecWrite == InitWrite /\ [][NextWrite]_vars

\* C24: no step of store_in_vector_db changes the cache (its entries, their
\* order, its file); a cache hit takes its results from an entry the owner has
\* in the cache, whatever was written to the store since that entry was put.
C24_WriteBypassesCache ==
    [][\A t \in TaskIds :
          /\ (tasks'[t] # tasks[t] /\ tasks'[t].op = "store_in_vector_db")
             => /\ search_cache' = search_cache
                /\ search_cache_file' = search_cache_file
          /\ (now' # now /\ tasks'[t].hit)
             => \E e \in Entries(search_cache) :
                   /\ e.username = tasks'[t].username
                   /\ e.query = tasks'[t].matched_query
                   /\ e.results = tasks'[t].results]_vars

\* the owner asked, then remembered a second text, then asked again: the
\* answer came from the cached results, which do not hold the new point
C24_Witness ==
    \E t \in TaskIds :
        /\ tasks[t].op = "search_cache_first"
        /\ tasks[t].hit
        /\ tasks[t].pc = "returned"
        /\ tasks[t].username = "u1"
        /\ tasks[t].results = <<[id |-> 1, text |-> "paris"]>>
        /\ \E p \in collection.points : p.id = 3 /\ p.payload.username = "u1"

\* ------------------------------------------------------ deletion by terms
\* the points a delete_memories_by_terms call has removed so far
C25_Removed(tk) == tk.seen.points \ collection.points

\* the found points whose text holds the terms, case aside
C25_Matching(tk) ==
    {tk.hits[i] : i \in {j \in DOMAIN tk.hits :
         IsSubstring(Lower(tk.query), Lower(tk.hits[j].payload.text))}}

\* C25: on a collection of the configured vector size, a preview returns the
\* number of the owner's found points whose text holds the terms and deletes
\* nothing; a deletion removes exactly those points and returns their number;
\* no point written for another owner and no point whose text lacks the terms
\* is removed; with no match the count is 0 and nothing is removed.
C25_DeleteByTermsExact ==
    \A t \in TaskIds :
        LET tk == tasks[t]
        IN (/\ tk.op = "delete_memories_by_terms"
            /\ tk.seen.exists
            /\ tk.seen.size = ExpectedDims)
           => /\ \A p \in C25_Removed(tk) :
                    /\ p.writer = tk.username
                    /\ IsSubstring(Lower(tk.query), Lower(p.payload.text))
              /\ tk.preview_only => C25_Removed(tk) = {}
              /\ tk.pc = "returned" =>
                    /\ tk.count = Cardinality(C25_Matching(tk))
                    /\ ~tk.preview_only => C25_Removed(tk) = C25_Matching(tk)
                    /\ tk.count = 0 => C25_Removed(tk) = {}

\* ------------------------------------------------- generate_embedding alone
\* the texts a caller hands over: blank ones and ones with ink
EmbedTexts == {"", "  ", "paris", " rome "}

EmbedConfigs ==
    Configs \cup {[provider |-> "Claude", embedding_model |-> "text-embedding-3-small"]}

\* the request generate_embedding sends for the configured provider
EmbeddingBackend(provider) ==
    CASE provider \in {"OpenAI", "GitHub", "Custom"} -> "client.embeddings.create"
      [] provider = "Gemini" -> "embedContent"
      [] OTHER -> "fallback_client.embeddings.create"

\* except Exception as e: raise AIServiceError(...), whatever e is
EmbeddingError(e) == "AIServiceError"

\* generate_embedding up to its await: the text is stripped, a blank one raises
\* ValueError inside the try block
generate_embedding(t, text, username) ==
    /\ ~InFlight(t)
    /\ LET tk == [IdleTask EXCEPT !.op = "generate_embedding", !.text = text,
                                  !.username = username]
       IN SetTask(t, IF Strip(text) = ""
                     THEN [tk EXCEPT !.pc = "raised",
                                     !.error = EmbeddingError("ValueError")]
                     ELSE [tk EXCEPT !.pc = "embedding_backend",
                                     !.calls = <<EmbeddingBackend(config.provider)>>])
    /\ UNCHANGED <<config, collection>>

\* the embedding backend answers or fails
generate_embedding_response(t, ok) ==
    /\ tasks[t].pc = "embedding_backend"
    /\ SetTask(t, IF ok THEN [tasks[t] EXCEPT !.pc = "returned"]
                  ELSE [tasks[t] EXCEPT !.pc = "raised",
                                        !.error = EmbeddingError("backend")])
    /\ UNCHANGED <<config, collection>>

InitEmbed ==
    /\ InitProcess
    /\ config \in EmbedConfigs
    /\ collection \in InitCollections
    /\ next_id = 3

EmbedCall ==
    /\ \E t \in TaskIds, text \in EmbedTexts, u \in Owners :
          generate_embedding(t, text, u)
    /\ UNCHANGED <<cache_vars, now, probe, listed, purged, user_data>>
EmbedBackendStep ==
    /\ \E t \in TaskIds, ok \in BOOLEAN : generate_embedding_response(t, ok)
    /\ UNCHANGED <<cache_vars, now, probe, listed, purged, user_data>>
\* process_text: the text whose embedding was made is stored for its sender
EmbedStoreCall ==
    /\ \E t \in TaskIds :
          /\ tasks[t].op = "generate_embedding"
          /\ tasks[t].pc = "returned"
          /\ store_in_vector_db(t, tasks[t].text, tasks[t].username, NoMeta)
    /\ UNCHANGED <<cache_vars, now, probe, listed, purged, user_data>>

NextEmbed ==
    \/ Quiet /\ EmbedCall
    \/ EmbedBackendStep
    \/ EmbedStoreCall
    \/ EnsureSteps
    \/ UpsertStep

SpecEmbed == InitEmbed /\ [][NextEmbed]_vars

\* C26: generate_embedding on a text that is blank once stripped has raised,
\* has sent nothing to the embedding backend, and its error is of another kind
\* than the one a failure of the backend raises.
C26_BlankIsInvalidInput ==
    \A t \in TaskIds :
        (tasks[t].op = "generate_embedding" /\ Strip(tasks[t].text) = "")
        => /\ tasks[t].pc = "raised"
           /\ tasks[t].calls = <<>>
           /\ tasks[t].error # EmbeddingError("backend")

\* --------------------------------------------------- chat_completion alone
ChatProviders == {"OpenAI", "GitHub", "Custom", "Gemini", "Claude"}
\* max_tokens of the callers: summaries, talk mode, answers
MaxTokens == {150, 350, 800}
\* what comes back from the backend: the request fails, an HTTP error body,
\* a body with no choices/candidates/content blocks, a first choice with no
\* text in it, a first choice with text
ChatResponses == {"fail", "http_error", "no_choices", "no_text", "text"}

\* the request chat_completion sends for the configured provider
ChatBackend(provider) ==
    CASE provider \in {"OpenAI", "GitHub", "Custom"} -> "client.chat.completions.create"
      [] provider = "Gemini" -> "generateContent"
      [] provider = "Claude" -> "/v1/messages"
      [] OTHER -> ""

\* how chat_completion ends on a response of the given shape
ChatCompletion(provider, response) ==
    CASE provider \in {"OpenAI", "GitHub", "Custom"} ->
            \* response.choices[0].message.content: the SDK raises on a failed
            \* request or an HTTP error, [0] raises on no choices, a message
            \* without text has content None and that is what is returned
            CASE response \in {"fail", "http_error", "no_choices"} -> "raised"
              [] response = "no_text" -> "returned_none"
              [] OTHER -> "returned_text"
      [] provider = "Gemini" ->
            \* status, error, candidates, parts and text are each tested
            IF response = "text" THEN "returned_text" ELSE "raised"
      [] provider = "Claude" ->
            \* result["content"][0]["text"]: KeyError or IndexError otherwise
            IF response = "text" THEN "returned_text" ELSE "raised"
      [] OTHER -> "returned_none"

\* chat_completion up to its await; max_tokens is kept in the field limit
chat_completion(t, max_tokens) ==
    /\ ~InFlight(t)
    /\ SetTask(t, [IdleTask EXCEPT !.op = "chat_completion", !.pc = "chat_backend",
                                   !.limit = max_tokens,
                                   !.calls = <<ChatBackend(config.provider)>>])
    /\ UNCHANGED <<config, collection>>

\* the backend has answered; chat keeps the shape of the response, reply the
\* text it carried, result what chat_completion returned
chat_completion_response(t, response, text) ==
    /\ tasks[t].pc = "chat_backend"
    /\ LET end == ChatCompletion(config.provider, response)
           tk == [tasks[t] EXCEPT !.chat = response,
                                  !.reply = IF response = "text" THEN text ELSE ""]
       IN SetTask(t, CASE end = "raised" ->
                            [tk EXCEPT !.pc = "raised", !.error = "AIServiceError"]
                       [] end = "returned_text" ->
                            [tk EXCEPT !.pc = "returned", !.result = tk.reply]
                       [] OTHER -> [tk EXCEPT !.pc = "returned"])
    /\ UNCHANGED <<config, collection>>

InitChat ==
    /\ InitProcess
    /\ config \in {[provider |-> p, embedding_model |-> "text-embedding-3-small"] :
                      p \in ChatProviders}
    /\ collection = NoCollection
    /\ next_id = 3

ChatCall ==
    /\ \E t \in TaskIds, max_tokens \in MaxTokens : chat_completion(t, max_tokens)
    /\ UNCHANGED <<cache_vars, now, probe, listed, purged, user_data>>
ChatBackendStep ==
    /\ \E t \in TaskIds, response \in ChatResponses, text \in {"Paris.", "Rome."} :
          chat_completion_response(t, response, text)
    /\ UNCHANGED <<cache_vars, now, probe, listed, purged, user_data>>

NextChat ==
    \/ ChatCall
    \/ ChatBackendStep

SpecChat == InitChat /\ [][NextChat]_vars

\* C27: under every provider, once the backend has answered with no choices or
\* candidates, or with a first choice that carries no text, chat_completion has
\* raised AIServiceError and has returned nothing; on a response with text it
\* has returned the text of the first choice.
C27_MissingContentRaises ==
    \A t \in TaskIds :
        LET tk == tasks[t]
        IN (tk.op = "chat_completion" /\ tk.pc \in {"returned", "raised"})
           => /\ tk.chat \in {"no_choices", "no_text"} =>
                    /\ tk.pc = "raised"
                    /\ tk.error = "AIServiceError"
              /\ tk.chat = "text" =>
                    /\ tk.pc = "returned"
                    /\ tk.result = tk.reply

\* ------------------------------------------------------- keys of the cache
\* owner and query pairs whose letters run together, with and without a colon
KeyPairs == {<<"ab", "c">>, <<"a", "bc">>, <<"a", "b:c">>, <<"a:b", "c">>}

\* the put of a miss: the pair put has no entry of its own in the cache
KeyPutCall ==
    /\ \E pair \in KeyPairs, r \in ResultLists :
          /\ \A e \in Entries(search_cache) :
                ~(e.username = pair[1] /\ e.query = pair[2])
          /\ cache_search_result(pair[2], r, pair[1], TRUE)
    /\ UNCHANGED <<store_vars, probe, listed, purged, user_data>>
KeyPurgeCall ==
    /\ \E pair \in KeyPairs : clear_all_user_cache(pair[1], TRUE)
    /\ UNCHANGED <<store_vars, probe, listed, purged, user_data>>

NextKey ==
    \/ KeyPutCall
    \/ KeyPurgeCall

SpecKey == InitCache /\ [][NextKey]_vars

C28_Cached(username, query) ==
    \E e \in Entries(search_cache) : e.username = username /\ e.query = query

\* C28 as stated: (owner "ab", query "c") and (owner "a", query "bc") share one
\* cache entry, so the cache never holds an entry of each at once.
C28_ConcatCollides == ~(C28_Cached("ab", "c") /\ C28_Cached("a", "bc"))

\* C28: the key of every entry is its owner, a colon, then its query, and no
\* two entries have the same key; the entry just put is the newest one. So
\* (owner "a", query "b:c") and (owner "a:b", query "c") never have an entry
\* each, the put of one replaces the entry of the other.
C28_ColonKeyCollides ==
    /\ \A i \in DOMAIN search_cache :
          search_cache[i].key =
              search_cache[i].username \o ":" \o search_cache[i].query
    /\ \A i, j \in DOMAIN search_cache :
          i # j => search_cache[i].key # search_cache[j].key
    /\ last_put.key # "" =>
          /\ search_cache # <<>>
          /\ search_cache[Len(search_cache)].key = last_put.key
    /\ ~(C28_Cached("a", "b:c") /\ C28_Cached("a:b", "c"))

\* (ab, c) and (a, bc) are cached side by side, and the last put found its key
\* a:b:c held by the entry of the other pair and replaced it
C28_Witness ==
    /\ C28_Cached("ab", "c")
    /\ C28_Cached("a", "bc")
    /\ last_put.existed
    /\ last_put.key = "a:b:c"

\* ------------------------------------------- /forget, /forgetall, replies
\* updates are handled one at a time: a handler starts when no coroutine is
\* at an await and no handler is waiting for one
NoHandler == Quiet /\ \A u \in Owners : user_data[u].handler = "none"

Finished(t) == tasks[t].pc \in {"returned", "raised"}

SetUser(u, ud) == user_data' = [user_data EXCEPT ![u] = ud]

\* /forget <search terms> up to its await: the preview
forget_command(t, u, search_terms) ==
    /\ NoHandler
    /\ delete_memories_by_terms(t, search_terms, u, TRUE)
    /\ SetUser(u, [user_data[u] EXCEPT !.handler = "forget_command"])

\* the preview is back: matches are put up for confirmation
forget_command_end(t, u) ==
    /\ user_data[u].handler = "forget_command"
    /\ Finished(t)
    /\ SetUser(u, [user_data[u] EXCEPT
            !.handler = "none",
            !.pending_forget =
                IF tasks[t].pc = "returned" /\ tasks[t].count # 0
                THEN [search_terms |-> tasks[t].query, username |-> u,
                      count |-> tasks[t].count]
                ELSE @])
    /\ UNCHANGED <<cache_vars, now, store_vars>>

\* /forgetall up to its await: the count
forgetall_command(t, u) ==
    /\ NoHandler
    /\ clear_all_memories(t, u, TRUE)
    /\ SetUser(u, [user_data[u] EXCEPT !.handler = "forgetall_command"])

forgetall_command_end(t, u) ==
    /\ user_data[u].handler = "forgetall_command"
    /\ Finished(t)
    /\ SetUser(u, [user_data[u] EXCEPT
            !.handler = "none",
            !.pending_forget_all =
                IF tasks[t].pc = "returned" /\ tasks[t].count # 0
                THEN [search_terms |-> "", username |-> u, count |-> tasks[t].count]
                ELSE @])
    /\ UNCHANGED <<cache_vars, now, store_vars>>

\* handle_forget_confirmation up to its await, or to its end. sent: the reply
\* the branch begins with is delivered (reply_text does not raise); told: so
\* is the error reply of the except clause. The pending state is popped after
\* the try statement, which an exception of the refusal or of the error reply
\* leaves before
handle_forget_confirmation(t, u, text, sent, told) ==
    LET pending == user_data[u].pending_forget
    IN IF Strip(Upper(text)) = "YES"
       THEN IF sent
            THEN /\ delete_memories_by_terms(t, pending.search_terms,
                                             pending.username, FALSE)
                 /\ SetUser(u, [user_data[u] EXCEPT
                         !.handler = "handle_forget_confirmation", !.text = text])
            ELSE /\ SetUser(u, [user_data[u] EXCEPT
                         !.pending_forget = IF told THEN NoPending ELSE @,
                         !.text = text])
                 /\ UNCHANGED store_vars
       ELSE /\ SetUser(u, [user_data[u] EXCEPT
                    !.pending_forget = IF sent THEN NoPending ELSE @,
                    !.text = text])
            /\ UNCHANGED store_vars

\* the deletion is back: the related cache entries go if it succeeded; the
\* pending state goes unless the last reply raised
handle_forget_confirmation_end(t, u, ok, sent, told) ==
    LET pending == user_data[u].pending_forget
        deleted == tasks[t].pc = "returned"
    IN /\ user_data[u].handler = "handle_forget_confirmation"
       /\ Finished(t)
       /\ IF deleted
          THEN clear_user_search_cache(pending.username, pending.search_terms, ok)
          ELSE UNCHANGED <<cache_vars, now>>
       /\ SetUser(u, [user_data[u] EXCEPT
               !.handler = "none",
               !.pending_forget = IF (deleted /\ sent) \/ told THEN NoPending
                                  ELSE @])
       /\ UNCHANGED store_vars

\* handle_forget_all_confirmation up to its await, or to its end
handle_forget_all_confirmation(t, u, text, sent, told) ==
    LET pending == user_data[u].pending_forget_all
    IN IF Strip(text) = "DELETE ALL"
       THEN IF sent
            THEN /\ clear_all_memories(t, pending.username, FALSE)
                 /\ SetUser(u, [user_data[u] EXCEPT
                         !.handler = "handle_forget_all_confirmation",
                         !.text = text])
            ELSE /\ SetUser(u, [user_data[u] EXCEPT
                         !.pending_forget_all = IF told THEN NoPending ELSE @,
                         !.text = text])
                 /\ UNCHANGED store_vars
       ELSE /\ SetUser(u, [user_data[u] EXCEPT
                    !.pending_forget_all = IF sent THEN NoPending ELSE @,
                    !.text = text])
            /\ UNCHANGED store_vars

handle_forget_all_confirmation_end(t, u, ok, sent, told) ==
    LET pending == user_data[u].pending_forget_all
        deleted == tasks[t].pc = "returned"
    IN /\ user_data[u].handler = "handle_forget_all_confirmation"
       /\ Finished(t)
       /\ IF deleted
          THEN clear_all_user_cache(pending.username, ok) /\ UNCHANGED now
          ELSE UNCHANGED <<cache_vars, now>>
       /\ SetUser(u, [user_data[u] EXCEPT
               !.handler = "none",
               !.pending_forget_all = IF (deleted /\ sent) \/ told THEN NoPending
                                      ELSE @])
       /\ UNCHANGED store_vars

\* handle_text: the message is stripped; a pending /forget takes it, else a
\* pending /forgetall, else the user, who has chosen no mode, is asked to
handle_text(t, u, message, sent, told) ==
    LET text == Strip(message)
    IN /\ NoHandler
       /\ text # ""
       /\ IF user_data[u].pending_forget # NoPending
          THEN handle_forget_confirmation(t, u, text, sent, told)
          ELSE IF user_data[u].pending_forget_all # NoPending
          THEN handle_forget_all_confirmation(t, u, text, sent, told)
          ELSE /\ SetUser(u, [user_data[u] EXCEPT !.text = text])
               /\ UNCHANGED store_vars

ForgetTerms == {"PAR"}
\* what a user may send as a text message
Messages == {" yes ", "DELETE ALL", "delete all"}

ForgetEntry(u, q, t) ==
    [key |-> CacheKey(u, q), query |-> q,
     results |-> <<[id |-> 1, text |-> "paris"]>>, timestamp |-> t, username |-> u]

\* two users with a memory each and with questions in the cache
InitForget ==
    /\ search_cache = <<ForgetEntry("u1", "Paris trip", 1), ForgetEntry("7", "Hi", 2),
                        ForgetEntry("u1", "Hi", 3)>>
    /\ search_cache_file = FileOf(search_cache)
    /\ user_modes = NoModes
    /\ user_modes_file = NoModes
    /\ now = DaySeconds
    /\ last_put = NoPut
    /\ tasks = [t \in {1} |-> IdleTask]
    /\ probe = NoProbe
    /\ listed = NoListed
    /\ purged = NoPurged
    /\ user_data = NoUserData
    /\ config = [provider |-> "OpenAI", embedding_model |-> "text-embedding-3-small"]
    /\ collection =
          [exists |-> TRUE, size |-> 1536,
           points |-> {Point(1, "paris", "u1", NoMeta, 0),
                       Point(2, "rome", "7", NoMeta, 0)},
           indexes |-> {"username", "content_type", "timestamp"}]
    /\ next_id = 3

ForgetCommand ==
    /\ \E t \in TaskIds, u \in Owners, terms \in ForgetTerms :
          forget_command(t, u, terms)
    /\ UNCHANGED <<cache_vars, now, probe, listed, purged>>
ForgetCommandEnd ==
    /\ \E t \in TaskIds, u \in Owners : forget_command_end(t, u)
    /\ UNCHANGED <<probe, listed, purged>>
ForgetAllCommand ==
    /\ \E t \in TaskIds, u \in Owners : forgetall_command(t, u)
    /\ UNCHANGED <<cache_vars, now, probe, listed, purged>>
ForgetAllCommandEnd ==
    /\ \E t \in TaskIds, u \in Owners : forgetall_command_end(t, u)
    /\ UNCHANGED <<probe, listed, purged>>
TextMessage ==
    /\ \E t \in TaskIds, u \in Owners, message \in Messages,
          sent \in BOOLEAN, told \in BOOLEAN :
          handle_text(t, u, message, sent, told)
    /\ UNCHANGED <<cache_vars, now, probe, listed, purged>>
ForgetConfirmationEnd ==
    /\ \E t \in TaskIds, u \in Owners, sent \in BOOLEAN, told \in BOOLEAN :
          handle_forget_confirmation_end(t, u, TRUE, sent, told)
    /\ UNCHANGED <<probe, listed, purged>>
ForgetAllConfirmationEnd ==
    /\ \E t \in TaskIds, u \in Owners, sent \in BOOLEAN, told \in BOOLEAN :
          handle_forget_all_confirmation_end(t, u, TRUE, sent, told)
    /\ UNCHANGED <<probe, listed, purged>>

NextForget ==
    \/ ForgetCommand
    \/ ForgetCommandEnd
    \/ ForgetAllCommand
    \/ ForgetAllCommandEnd
    \/ TextMessage
    \/ ForgetConfirmationEnd
    \/ ForgetAllConfirmationEnd
    \/ PairGetCollectionStep
    \/ PairIndexStep
    \/ TermsEmbeddingStep
    \/ TermsSearchStep
    \/ TermsDeleteStep
    \/ ClearAllSearchStep
    \/ ClearAllDeleteStep

SpecForget == InitForget /\ [][NextForget]_vars

DeleteOps == {"delete_memories_by_terms", "clear_all_memories"}

\* a deletion that is no preview begins in this step
C29_DeletionBegins(t) ==
    /\ tasks'[t] # tasks[t]
    /\ tasks'[t].pc = "get_collection"
    /\ tasks'[t].op \in DeleteOps
    /\ ~tasks'[t].preview_only

\* C29: a deletion that is no preview begins only in the step that handles a
\* text message of a user whose pending flag of /forget (of /forgetall) is set,
\* the text being YES once stripped and put in capitals (being DELETE ALL,
\* blanks around it aside), and it deletes what the flag names; points leave
\* the store only in a step of such a deletion; a reply handled in one step,
\* which is any other reply, leaves the store alone and clears the flag it
\* answered; a handler that ends after the deletion, failed or not, clears it.
C29_DeleteOnlyConfirmed ==
    [][/\ \A t \in TaskIds :
            C29_DeletionBegins(t) =>
                \E u \in Owners :
                    LET ud == user_data[u]
                        message == user_data'[u].text
                    IN \/ /\ tasks'[t].op = "delete_memories_by_terms"
                          /\ ud.pending_forget # NoPending
                          /\ Upper(Strip(message)) = "YES"
                          /\ tasks'[t].username = ud.pending_forget.username
                          /\ tasks'[t].query = ud.pending_forget.search_terms
                       \/ /\ tasks'[t].op = "clear_all_memories"
                          /\ ud.pending_forget_all # NoPending
                          /\ Strip(message) = "DELETE ALL"
                          /\ tasks'[t].username = ud.pending_forget_all.username
       /\ collection'.points # collection.points =>
            \E t \in TaskIds :
                /\ tasks[t].op \in DeleteOps
                /\ ~tasks[t].preview_only
                /\ tasks[t].pc \in {"delete_matching", "delete_points"}
       /\ \A u \in Owners :
            LET ud == user_data[u]
                after == user_data'[u]
            IN /\ (ud.handler = "handle_forget_confirmation" /\ after.handler = "none")
                  => after.pending_forget = NoPending
               /\ (ud.handler = "handle_forget_all_confirmation"
                   /\ after.handler = "none")
                  => after.pending_forget_all = NoPending
               /\ (ud.handler = "none" /\ after.handler = "none" /\ after # ud)
                  => /\ collection' = collection
                     /\ tasks' = tasks
                     /\ ud.pending_forget # NoPending
                        => after.pending_forget = NoPending
                     /\ (ud.pending_forget = NoPending
                         /\ ud.pending_forget_all # NoPending)
                        => after.pending_forget_all = NoPending]_vars

\* ------------------------------------------- /forgetall on a large store
\* u1 holds one memory more than the dummy search of clear_all_memories asks
\* for, the other user holds one
InitForgetBulk ==
    /\ search_cache = <<ForgetEntry("u1", "Paris trip", 1), ForgetEntry("7", "Hi", 2),
                        ForgetEntry("u1", "Hi", 3)>>
    /\ search_cache_file = FileOf(search_cache)
    /\ user_modes = NoModes
    /\ user_modes_file = NoModes
    /\ now = DaySeconds
    /\ last_put = NoPut
    /\ tasks = [t \in {1} |-> IdleTask]
    /\ probe = NoProbe
    /\ listed = NoListed
    /\ purged = NoPurged
    /\ user_data = NoUserData
    /\ config = [provider |-> "OpenAI", embedding_model |-> "text-embedding-3-small"]
    /\ collection =
          [exists |-> TRUE, size |-> 1536,
           points |-> {Point(i, "paris", "u1", NoMeta, 0) : i \in 1..BulkCount}
                      \cup {Point(BulkCount + 1, "rome", "7", NoMeta, 0)},
           indexes |-> {"username", "content_type", "timestamp"}]
    /\ next_id = BulkCount + 2

BulkTextMessage ==
    /\ \E t \in TaskIds, u \in Owners, message \in {"DELETE ALL", "delete all"},
          sent \in BOOLEAN, told \in BOOLEAN :
          handle_text(t, u, message, sent, told)
    /\ UNCHANGED <<cache_vars, now, probe, listed, purged>>

NextForgetBulk ==
    \/ ForgetAllCommand
    \/ ForgetAllCommandEnd
    \/ BulkTextMessage
    \/ ForgetAllConfirmationEnd
    \/ PairGetCollectionStep
    \/ PairIndexStep
    \/ ClearAllSearchStep
    \/ ClearAllDeleteStep

SpecForgetBulk == InitForgetBulk /\ [][NextForgetBulk]_vars

C30_Others(cache, u) == SelectSeq(cache, LAMBDA e : e.username # u)

\* C30: when the handler of a confirmed /forgetall ends after a deletion that
\* returned, the owner has no point in the store and no entry in the cache,
\* and the entries of the others are as they were; when the deletion raised,
\* the cache is as it was; no step takes a point of another owner from the
\* store; while the handler runs, entries of the owner leave the cache only in
\* that closing step, with the store deletion done.
C30_ForgetAllComplete ==
    [][\A u \in Owners, t \in TaskIds :
          LET closing == /\ user_data[u].handler = "handle_forget_all_confirmation"
                         /\ user_data'[u].handler = "none"
          IN /\ closing =>
                  IF tasks[t].pc = "returned"
                  THEN /\ UserFilter(collection'.points, u) = {}
                       /\ \A e \in Entries(search_cache') : e.username # u
                       /\ C30_Others(search_cache', u) = C30_Others(search_cache, u)
                  ELSE search_cache' = search_cache
             /\ (tasks[t].op = "clear_all_memories" /\ tasks[t].username = u)
                => UserFilter(collection'.points, u) \cup collection.points
                     = collection'.points \cup UserFilter(collection.points, u)
             /\ (/\ user_data[u].handler = "handle_forget_all_confirmation"
                 /\ \E e \in Entries(search_cache) :
                       e.username = u /\ e \notin Entries(search_cache'))
                => closing /\ tasks[t].pc = "returned"]_vars


\* ------------------------------------------- owners whose keys run together
\* owner and query pairs of which two share the key a:b:c, and one query asked
\* by both owners
OwnerPairs == {<<"a", "b:c">>, <<"a:b", "c">>, <<"a", "c">>}

\* each owner has one memory in the store
InitOwner ==
    /\ InitProcess
    /\ config = [provider |-> "OpenAI", embedding_model |-> "text-embedding-3-small"]
    /\ collection =
          [exists |-> TRUE, size |-> 1536,
           points |-> {Point(1, "paris", "a", NoMeta, 0),
                       Point(2, "rome", "a:b", NoMeta, 0)},
           indexes |-> {"username", "content_type", "timestamp"}]
    /\ next_id = 3

OwnerAskCall ==
    \E t \in TaskIds, pair \in OwnerPairs, limit \in Limits :
        search_cache_first(t, pair[2], pair[1], limit, TRUE)

NextOwner ==
    \/ Quiet /\ OwnerAskCall
    \/ PairEmbeddingStep
    \/ PairGetCollectionStep
    \/ PairIndexStep
    \/ PairSearchStep
    \/ ChatStep

SpecOwner == InitOwner /\ [][NextOwner]_vars

\* the owner of the memory a result was formatted from
C31_OwnerOf(result) ==
    (CHOOSE p \in collection.points : p.id = result.id).payload.username

\* C31: every cache entry holds results of its own owner's memories only; a
\* search_cache_first call is a hit exactly when an entry of its owner matched
\* the query, and the results it answers from are that owner's, whatever other
\* owner holds an entry under the key of the question.
C31_OwnerScopedCache ==
    /\ \A e \in Entries(search_cache) :
          \A i \in DOMAIN e.results : C31_OwnerOf(e.results[i]) = e.username
    /\ \A t \in TaskIds :
          LET tk == tasks[t]
          IN tk.op = "search_cache_first" =>
                /\ tk.hit = tk.had_match
                /\ tk.hit =>
                      \A i \in DOMAIN tk.results :
                          C31_OwnerOf(tk.results[i]) = tk.username

\* owner a:b asks "c" while the key a:b:c is held by the entry of owner a: the
\* question is a miss and goes to the store
C31_Witness ==
    \E t \in TaskIds :
        /\ tasks[t].op = "search_cache_first"
        /\ tasks[t].username = "a:b"
        /\ tasks[t].query = "c"
        /\ tasks[t].pc = "embedding"
        /\ ~tasks[t].hit
        /\ \E e \in Entries(search_cache) :
              /\ e.key = CacheKey("a:b", "c")
              /\ e.username = "a"
              /\ e.results # <<>>

\* C32: from an empty cache, every entry the engine puts holds at least one
\* result: a search that found nothing is answered without a put, and a hit
\* puts again the results of an entry, so every hit goes on to the chat model
\* and none ends in the no-information message of the empty branch.
C32_NoEmptyEntry ==
    /\ \A e \in Entries(search_cache) : e.results # <<>>
    /\ \A t \in TaskIds :
          LET tk == tasks[t]
          IN /\ (tk.op \in EngineOps /\ tk.searched /\ tk.results = <<>>) =>
                   /\ tk.pc = "returned"
                   /\ tk.result = NoInfoMessage
                   /\ "cache_search_result" \notin CallsOf(tk)
             /\ tk.hit =>
                   /\ tk.results # <<>>
                   /\ tk.calls = <<"cache_search_result", "chat_completion">>

\* a question whose search found nothing has returned the no-information
\* message, and the cache, which holds the entry of an earlier question, has
\* none for this one
C32_Witness ==
    \E t \in TaskIds :
        /\ tasks[t].op \in EngineOps
        /\ tasks[t].searched
        /\ tasks[t].results = <<>>
        /\ tasks[t].pc = "returned"
        /\ search_cache # <<>>
        /\ \A e \in Entries(search_cache) :
              ~(e.username = tasks[t].username /\ e.query = tasks[t].query)

\* C33: when the chat call of a miss fails, search_cache_first raises
\* AIServiceError and the cache keeps, as its newest entry, the results just
\* found under the owner and the query; the same question asked next by the
\* same owner is a hit that answers from those results and calls neither
\* generate_embedding nor search_vector_db_enhanced.
C33_FailedChatLeavesEntry ==
    [][\A t \in TaskIds :
          LET old == tasks[t]
              new == tasks'[t]
          IN /\ (/\ old.op = "search_cache_first" /\ old.pc = "chat"
                 /\ ~old.hit /\ new.pc = "raised")
                => /\ ChatFailedOnMiss(new)
                   /\ new.error = "AIServiceError"
                   /\ search_cache' = search_cache
                   /\ search_cache # <<>>
                   /\ search_cache[Len(search_cache)].key =
                         CacheKey(old.username, old.query)
                   /\ search_cache[Len(search_cache)].username = old.username
                   /\ search_cache[Len(search_cache)].results = old.results
             /\ (/\ ChatFailedOnMiss(old)
                 /\ new # old
                 /\ new.op = "search_cache_first"
                 /\ new.query = old.query
                 /\ new.username = old.username)
                => /\ new.hit
                   /\ new.pc = "chat"
                   /\ ~new.searched
                   /\ CallsOf(new) \cap SearchCalls = {}
                   /\ new.results = old.results]_vars

\* the repeat of a question whose chat call had failed is at its chat call,
\* answering from the cache: the put of the hit found the entry of the miss
C33_Witness ==
    \E t \in TaskIds :
        /\ tasks[t].op = "search_cache_first"
        /\ tasks[t].hit
        /\ tasks[t].pc = "chat"
        /\ tasks[t].results # <<>>
        /\ CallsOf(tasks[t]) \cap SearchCalls = {}
        /\ last_put.existed
        /\ last_put.key = CacheKey(tasks[t].username, tasks[t].query)
        /\ tasks[t].repeat

\* --------------------------------------- a store and a search at once
\* two coroutines on one event loop, one configuration: the collection is
\* absent, or present with the expected vector size or with another one
InitDurable ==
    /\ search_cache = <<>>
    /\ search_cache_file = <<>>
    /\ user_modes = NoModes
    /\ user_modes_file = NoModes
    /\ now = 0
    /\ last_put = NoPut
    /\ tasks = [t \in {1, 2} |-> IdleTask]
    /\ probe = NoProbe
    /\ listed = NoListed
    /\ purged = NoPurged
    /\ user_data = NoUserData
    /\ config = [provider |-> "OpenAI", embedding_model |-> "text-embedding-3-small"]
    /\ collection \in
          {NoCollection} \cup
          {[exists |-> TRUE, size |-> d,
            points |-> {Point(1, "paris", "u1", NoMeta, 0),
                        Point(2, "rome", "7", NoMeta, 0)},
            indexes |-> {"username", "content_type", "timestamp"}] :
              d \in {768, 1536}}
    /\ next_id = 3

\* the first coroutine stores, the second one searches; every call of the
\* vector store is answered
DurableStoreCall ==
    /\ store_in_vector_db(1, "lyon", "u1", NoMeta)
    /\ UNCHANGED <<cache_vars, now, probe, listed, purged, user_data>>
DurableSearchCall ==
    /\ \E limit \in Limits : search_vector_db_enhanced(2, "u1", limit)
    /\ UNCHANGED <<cache_vars, now, probe, listed, purged, user_data>>
DurableDeleteCollectionStep ==
    /\ \E t \in TaskIds : ensure_delete_collection(t, TRUE)
    /\ UNCHANGED <<cache_vars, now, probe, listed, purged, user_data>>
DurableCreateCollectionStep ==
    /\ \E t \in TaskIds : ensure_create_collection(t, TRUE)
    /\ UNCHANGED <<cache_vars, now, probe, listed, purged, user_data>>
DurableUpsertStep ==
    /\ \E t \in TaskIds : store_upsert(t, TRUE)
    /\ UNCHANGED <<cache_vars, now, probe, listed, purged, user_data>>
DurableSearchStep ==
    /\ \E t \in TaskIds : search_response(t, TRUE)
    /\ UNCHANGED <<cache_vars, now, probe, listed, purged, user_data>>

\* no delete operation is called: points leave the store with their collection
NextDurable ==
    \/ DurableStoreCall
    \/ DurableSearchCall
    \/ PairGetCollectionStep
    \/ DurableDeleteCollectionStep
    \/ DurableCreateCollectionStep
    \/ PairIndexStep
    \/ DurableUpsertStep
    \/ DurableSearchStep

SpecDurable == InitDurable /\ [][NextDurable]_vars

\* C34: under any interleaving of store_in_vector_db and search calls of one
\* configuration, where no delete operation is called, the point of a
\* store_in_vector_db call that has returned its id is in the store, also when
\* the run began on a collection of another vector size.
C34_StoredPointStays ==
    \A t \in TaskIds :
        (tasks[t].op = "store_in_vector_db" /\ tasks[t].pc = "returned")
        => /\ collection.exists
           /\ tasks[t].point \in collection.points

\* C35: when the handler of a confirmed /forget ends after its deletion has
\* returned, no cache entry of the owner holds among its results a memory the
\* deletion removed.
C35_NoDeletedInCache ==
    [][\A u \in Owners, t \in TaskIds :
          (/\ user_data[u].handler = "handle_forget_confirmation"
           /\ user_data'[u].handler = "none"
           /\ tasks[t].op = "delete_memories_by_terms"
           /\ ~tasks[t].preview_only
           /\ tasks[t].pc = "returned")
          => \A e \in Entries(search_cache') :
                e.username = tasks[t].username
                => \A i \in DOMAIN e.results :
                      e.results[i].id \notin tasks[t].found]_vars

\* C36: whatever limit of at least 1 a question with a keyword was asked with,
\* the limit it takes to the vector search is not below the limit a question
\* without keyword takes there when asked with the same limit.
C36_KeywordNeverLowers ==
    \A t \in TaskIds :
        LET tk == tasks[t]
        IN (/\ tk.op = "query_knowledge_base"
            /\ tk.query \in KeywordQueries
            /\ tk.asked_limit >= 1)
           => \A plain \in PlainQueries :
                 tk.limit >= SearchLimit(plain, tk.asked_limit)

\* ------------------------------------------------ the cache over a restart
\* the questions whose entries the file of an earlier run may hold
PersistedPairs ==
    <<<<"u1", "Hi">>, <<"7", "Hi">>, <<"u1", "Python tutorials">>,
      <<"7", "Python tutorials">>, <<"u1", "python tutorials for beginners">>,
      <<"7", "python tutorials for beginners">>>>

\* an item of search_cache.txt, written before this run began
PersistedItem(i, k) ==
    [query |-> PersistedPairs[i][2],
     results |-> <<[id |-> 1, text |-> "paris"]>>,
     timestamp |-> i - 1 - k, username |-> PersistedPairs[i][1]]

\* what search_cache.txt may hold when the process starts: nothing, or what an
\* instance of this capacity or of a larger one saved when it was full
PersistedFiles ==
    {[i \in 1..k |-> PersistedItem(i, k)] :
        k \in {0, max_search_cache, max_search_cache + 1}}

\* CacheManager(): both caches start empty and are loaded from their files
CacheManagerInit(file, modes_file) ==
    /\ search_cache = LoadSearchCache(file)
    /\ search_cache_file = file
    /\ user_modes = modes_file
    /\ user_modes_file = modes_file

\* the process starts on the files an earlier run left
InitLoad ==
    /\ \E file \in PersistedFiles : CacheManagerInit(file, NoModes)
    /\ now = 0
    /\ last_put = NoPut
    /\ tasks = [t \in {1} |-> IdleTask]
    /\ probe = NoProbe
    /\ listed = NoListed
    /\ purged = NoPurged
    /\ user_data = NoUserData
    /\ config = [provider |-> "OpenAI", embedding_model |-> "text-embedding-3-small"]
    /\ collection = NoCollection
    /\ next_id = 3

\* the process ends and is started again the next day: the coroutines and the
\* chat state are gone, the files and the store are as they were left
Restart ==
    /\ now \div DaySeconds < MaxDays
    /\ now' = (now \div DaySeconds + 1) * DaySeconds
    /\ search_cache' = LoadSearchCache(search_cache_file)
    /\ user_modes' = user_modes_file
    /\ last_put' = NoPut
    /\ tasks' = [t \in TaskIds |-> IdleTask]
    /\ user_data' = NoUserData
    /\ UNCHANGED <<search_cache_file, user_modes_file, config, collection,
                   next_id, probe, listed, purged>>

\* the disk works: every save is written
LoadPutCall ==
    /\ \E q \in Queries, u \in Owners :
          cache_search_result(q, <<[id |-> 2, text |-> "rome"]>>, u, TRUE)
    /\ UNCHANGED <<store_vars, probe, listed, purged, user_data>>
LoadClearUserCall ==
    /\ \E terms \in SaveTerms : clear_user_search_cache("u1", terms, TRUE)
    /\ UNCHANGED <<store_vars, probe, listed, purged, user_data>>

NextLoad ==
    \/ LoadPutCall
    \/ LoadClearUserCall
    \/ Restart

SpecLoad == InitLoad /\ [][NextLoad]_vars

\* C37: while every save is written, the file holds at every moment what
\* loading gives back as the cache in memory: the same entries with their
\* owner, query, results and timestamp, in the same order; so a restart
\* leaves search_cache as it was and the next put into a full cache evicts the
\* entry that was the least recent one before the restart.
C37_RestartKeepsCache ==
    [][/\ LoadSearchCache(search_cache_file') = search_cache'
       /\ Restart =>
             /\ search_cache' = search_cache
             /\ \A i \in DOMAIN search_cache :
                   LET e == search_cache[i]
                       f == search_cache_file[i]
                   IN /\ f.username = e.username /\ f.query = e.query
                      /\ f.results = e.results /\ f.timestamp = e.timestamp
       /\ (last_put'.evicted # <<>> /\ Len(search_cache) <= max_search_cache)
             => last_put'.evicted = <<search_cache[1]>>]_vars

\* after a restart a put into the full cache has evicted an entry of the day
\* before, and the entries left from that day are in the order they had
C37_Witness ==
    /\ now > DaySeconds
    /\ Len(search_cache) = max_search_cache
    /\ last_put.evicted # <<>>
    /\ last_put.evicted[1].timestamp < DaySeconds
    /\ last_put.evicted[1].timestamp > 0
    /\ search_cache[1].timestamp < DaySeconds
    /\ search_cache[1].timestamp > last_put.evicted[1].timestamp
    /\ search_cache[max_search_cache].timestamp = now

\* C38: right after the construction of the CacheManager, before any put of
\* the new process, search_cache holds at most max_search_cache entries,
\* whatever file was loaded.
C38_LoadWithinCapacity ==
    now % DaySeconds = 0 => Len(search_cache) <= max_search_cache
====
